---- MODULE Spec2Model ----
(***************************************************************************)
(* Lattice: the layout store (box tree), the generation store and the      *)
(* request/response protocol between the webview and the extension host.   *)
(*                                                                         *)
(* Identifiers are naturals.  Null (0) stands for null/undefined.  nanoid  *)
(* is a counter that never returns an id twice.  Styling fields of a Box   *)
(* that no store operation computes (label, grow, direction, gap, padding) *)
(* and wall-clock timestamps are left out of the records, and so are the   *)
(* preview tab and the notifications the handlers set.                     *)
(***************************************************************************)
EXTENDS Integers, Sequences, FiniteSets, TLC

VARIABLES
    boxes,          \* layout store: boxes : Record<id, Box>
    nextId,         \* nanoid for boxes: next unused box id
    pages,          \* project store: pages (sequence of [id, boxIds])
    sharedComponents, \* project store: sharedComponents : Record<id, SharedComponent>
    activePageId,   \* ui store: activePageId
    context,        \* context store: context : ProjectContext
    config,         \* extension host: the configured provider, and whether its API key is stored
    vendor,         \* what the vendor of the configured provider answers to the request
    proc,           \* extension host: position and locals of the generate call being served
    posted,         \* messages the generate call has posted to the panel
    calls,          \* network calls the provider has made: streaming and plain
    globalState,    \* extension globalState: the entry 'lattice.aiConfig'
    secrets,        \* SecretStorage: the entry 'lattice.apiKey.<provider>' of each provider
    setting,        \* extension host: position and argument of the handleSetAIConfig call being served
    echoed,         \* the aiConfig message that call has posted
    passed,         \* the provider and key of the last provider.generate call of AIService.generate
    results,        \* generation store: results : Record<boxId, GenerationResult>
    generating,     \* generation store: generating : Record<boxId, boolean>
    streamBuffers,  \* generation store: streamBuffers : Record<boxId, string>
    requestBoxMap,  \* generation store: requestBoxMap : Record<requestId, boxId>
    lastPrompt,     \* generation store: lastPrompt : AssembledPrompt | null
    nextVersion,    \* nanoid for versions: next unused version id
    requestCounter, \* HostBridge._requestCounter
    host,           \* extension host: one handleGenerate call per received request
    inbox,          \* messages posted by the host, not yet dispatched in the webview
    log,            \* history: what each generate action started and mapped
    completeCalls,  \* history: number of completeGeneration calls per target
    discarded,      \* history: the type of the last message a listener found no box for
    copyOf          \* history: the box each duplicate of the canvas was made from

layoutVars == <<boxes, nextId>>
genVars == <<results, generating, streamBuffers, requestBoxMap, lastPrompt, nextVersion>>
wireVars == <<requestCounter, host, inbox>>
histVars == <<log, completeCalls, discarded, copyOf>>
projectVars == <<pages, sharedComponents>>
uiVars == <<activePageId, context>>
cfgVars == <<globalState, secrets, setting, echoed, passed>>
extVars == <<config, vendor, proc, posted, calls, cfgVars>>
vars == <<boxes, nextId, pages, sharedComponents, results, generating, streamBuffers, requestBoxMap,
          lastPrompt, nextVersion, requestCounter, host, inbox, log, completeCalls,
          discarded, copyOf, activePageId, config, vendor, proc, posted, calls,
          globalState, secrets, setting, echoed, passed, context>>

(***************************************************************************)
(* Bounds                                                                  *)
(***************************************************************************)
MaxBoxes == 3
MaxIndex == 2

Null == 0
EmptyMap == [x \in {} |-> Null]

BoxIds == 1..MaxBoxes
\* an identifier that names no box, ever
GhostId == MaxBoxes + 1

(***************************************************************************)
(* Records as finite maps                                                  *)
(***************************************************************************)
Put(f, k, v) == [x \in (DOMAIN f) \cup {k} |-> IF x = k THEN v ELSE f[x]]
Del(f, K) == [x \in (DOMAIN f) \ K |-> f[x]]
Without(seq, x) == SelectSeq(seq, LAMBDA e : e # x)
Max(a, b) == IF a >= b THEN a ELSE b
Min(a, b) == IF a <= b THEN a ELSE b
SeqSet(seq) == {seq[i] : i \in 1..Len(seq)}

\* Array.prototype.splice(index, 0, x) on a copy of seq
Splice(seq, index, x) ==
    LET n == Len(seq)
        start == IF index < 0 THEN Max(n + index, 0) ELSE Min(index, n)
    IN  SubSeq(seq, 1, start) \o <<x>> \o SubSeq(seq, start + 1, n)

(***************************************************************************)
(* Layout store                                                            *)
(***************************************************************************)
DEFAULT_WIDTH == 320
DEFAULT_HEIGHT == 200
STAGGER_OFFSET == 40

createEmptyBox(id, parentId, order, x, y) ==
    [id |-> id, order |-> order, x |-> x, y |-> y,
     width |-> DEFAULT_WIDTH, height |-> DEFAULT_HEIGHT,
     parentId |-> parentId, childIds |-> <<>>, spec |-> Null,
     sharedComponentId |-> Null]

\* number of siblings a new box of the group of parentId is appended after
SiblingCount(bs, parentId) ==
    IF parentId # Null
    THEN IF parentId \in DOMAIN bs THEN Len(bs[parentId].childIds) ELSE 0
    ELSE Cardinality({b \in DOMAIN bs : bs[b].parentId = Null})

addBox(bs, id, parentId) ==
    LET order == SiblingCount(bs, parentId)
        box == createEmptyBox(id, parentId, order,
                              80 + order * STAGGER_OFFSET, 80 + order * STAGGER_OFFSET)
        newBoxes == Put(bs, id, box)
    IN  IF parentId # Null /\ parentId \in DOMAIN newBoxes
        THEN [newBoxes EXCEPT ![parentId].childIds = Append(@, id)]
        ELSE newBoxes

\* ids visited by collectDescendants(id) within n levels of recursion
RECURSIVE Visit(_, _, _)
Visit(bs, id, n) ==
    IF n = 0 \/ id \notin DOMAIN bs THEN {id}
    ELSE {id} \cup UNION {Visit(bs, bs[id].childIds[i], n - 1) : i \in 1..Len(bs[id].childIds)}

collectDescendants(bs, id) == Visit(bs, id, Cardinality(DOMAIN bs) + 1)

\* collectDescendants keeps no visited set: on a childIds cycle the recursion
\* never returns and the call ends in a stack overflow
Overflows(bs, id) ==
    \E c \in collectDescendants(bs, id) \cap DOMAIN bs :
        \E i \in 1..Len(bs[c].childIds) : c \in collectDescendants(bs, bs[c].childIds[i])

\* the state removeBox sets; unchanged when the updater throws
removeBox(bs, boxId) ==
    IF boxId \notin DOMAIN bs THEN bs
    ELSE IF Overflows(bs, boxId) THEN bs
    ELSE LET box == bs[boxId]
             newBoxes == Del(bs, collectDescendants(bs, boxId))
         IN  IF box.parentId # Null /\ box.parentId \in DOMAIN newBoxes
             THEN [newBoxes EXCEPT ![box.parentId].childIds = Without(@, boxId)]
             ELSE newBoxes

moveBox(bs, boxId, newParentId, index) ==
    IF boxId \notin DOMAIN bs THEN bs
    ELSE LET box == bs[boxId]
             b1 == IF box.parentId # Null /\ box.parentId \in DOMAIN bs
                   THEN [bs EXCEPT ![box.parentId].childIds = Without(@, boxId)]
                   ELSE bs
             b2 == IF newParentId # Null /\ newParentId \in DOMAIN b1
                   THEN [b1 EXCEPT ![newParentId].childIds = Splice(@, index, boxId)]
                   ELSE b1
         IN  [b2 EXCEPT ![boxId].parentId = newParentId, ![boxId].order = index]

\* {...box, ...patch, id: boxId}
updateBox(bs, boxId, patch) ==
    IF boxId \notin DOMAIN bs THEN bs
    ELSE [bs EXCEPT ![boxId] =
             [f \in DOMAIN bs[boxId] |->
                 IF f = "id" THEN boxId
                 ELSE IF f \in DOMAIN patch THEN patch[f] ELSE bs[boxId][f]]]

updateBoxPosition(bs, boxId, x, y) ==
    IF boxId \notin DOMAIN bs THEN bs
    ELSE [bs EXCEPT ![boxId].x = x, ![boxId].y = y]

\* updateBoxSize storing the numbers as given
updateBoxSize_unclamped(bs, boxId, width, height) ==
    IF boxId \notin DOMAIN bs THEN bs
    ELSE [bs EXCEPT ![boxId].width = width, ![boxId].height = height]

updateBoxSize(bs, boxId, width, height) ==
    IF boxId \notin DOMAIN bs THEN bs
    ELSE [bs EXCEPT ![boxId].width = Max(120, width), ![boxId].height = Max(60, height)]

updateBoxSpec(bs, boxId, spec) ==
    IF boxId \notin DOMAIN bs THEN bs
    ELSE [bs EXCEPT ![boxId].spec = spec]

\* duplicateBox keeping the child list of the original
duplicateBox_keepsChildren(bs, boxId, newId) ==
    IF boxId \notin DOMAIN bs THEN bs
    ELSE LET original == bs[boxId]
             duplicate == [original EXCEPT
                 !.id = newId,
                 !.order = SiblingCount(bs, original.parentId),
                 !.x = IF original.parentId = Null THEN @ + STAGGER_OFFSET ELSE @,
                 !.y = IF original.parentId = Null THEN @ + STAGGER_OFFSET ELSE @]
             newBoxes == Put(bs, newId, duplicate)
         IN  IF duplicate.parentId # Null /\ duplicate.parentId \in DOMAIN newBoxes
             THEN [newBoxes EXCEPT ![duplicate.parentId].childIds = Append(@, newId)]
             ELSE newBoxes

\* newId is the id nanoid returns; it is drawn only when the original exists
duplicateBox(bs, boxId, newId) ==
    IF boxId \notin DOMAIN bs THEN bs
    ELSE LET original == bs[boxId]
             duplicate == [original EXCEPT
                 !.id = newId,
                 !.order = SiblingCount(bs, original.parentId),
                 !.x = IF original.parentId = Null THEN @ + STAGGER_OFFSET ELSE @,
                 !.y = IF original.parentId = Null THEN @ + STAGGER_OFFSET ELSE @,
                 !.childIds = <<>>]
             newBoxes == Put(bs, newId, duplicate)
         IN  IF duplicate.parentId # Null /\ duplicate.parentId \in DOMAIN newBoxes
             THEN [newBoxes EXCEPT ![duplicate.parentId].childIds = Append(@, newId)]
             ELSE newBoxes

\* Array.prototype.sort((a, b) => a.order - b.order), which is stable
RECURSIVE SortByOrder(_)
SortByOrder(seq) ==
    IF seq = <<>> THEN <<>>
    ELSE LET last == seq[Len(seq)]
             front == SortByOrder(SubSeq(seq, 1, Len(seq) - 1))
         IN  SelectSeq(front, LAMBDA b : b.order <= last.order) \o <<last>> \o
             SelectSeq(front, LAMBDA b : b.order > last.order)

\* the boxes named by ids that exist: ids.map(id => boxes[id]).filter(Boolean)
BoxesOf(bs, ids) ==
    LET existing == SelectSeq(ids, LAMBDA id : id \in DOMAIN bs)
    IN  [i \in 1..Len(existing) |-> bs[existing[i]]]

getChildren(bs, boxId) ==
    IF boxId \notin DOMAIN bs THEN <<>>
    ELSE SortByOrder(BoxesOf(bs, bs[boxId].childIds))

(***************************************************************************)
(* Generation store.  The store is the record                              *)
(* [results, generating, streamBuffers, requestBoxMap, lastPrompt]; each   *)
(* action of the store maps a store to the store it sets.  A string is the *)
(* sequence of its pieces; a version id is passed in by the caller (nanoid)*)
(***************************************************************************)
EmptyPrompt == 0
\* lastPrompt = null, for which lastPrompt?.userPrompt ?? '' is ''
NullPrompt == [userPrompt |-> EmptyPrompt, target |-> "null", targetId |-> Null]

Gen ==
    [results |-> results, generating |-> generating, streamBuffers |-> streamBuffers,
     requestBoxMap |-> requestBoxMap, lastPrompt |-> lastPrompt]

SetGen(s) ==
    /\ results' = s.results
    /\ generating' = s.generating
    /\ streamBuffers' = s.streamBuffers
    /\ requestBoxMap' = s.requestBoxMap
    /\ lastPrompt' = s.lastPrompt

startGeneration(s, boxId) ==
    [s EXCEPT !.generating = Put(@, boxId, TRUE),
              !.streamBuffers = Put(@, boxId, <<>>)]

\* appendChunk putting the new text in front of the buffer
appendChunk_prepends(s, boxId, text) ==
    [s EXCEPT !.streamBuffers =
        Put(@, boxId, text \o (IF boxId \in DOMAIN @ THEN @[boxId] ELSE <<>>))]

appendChunk(s, boxId, text) ==
    [s EXCEPT !.streamBuffers =
        Put(@, boxId, (IF boxId \in DOMAIN @ THEN @[boxId] ELSE <<>>) \o text)]

\* completeGeneration keeping only the previous current version in history
completeGeneration_forgetsHistory(s, boxId, code, prompt, provider, model, versionId) ==
    LET version == [id |-> versionId, code |-> code, prompt |-> prompt,
                    provider |-> provider, model |-> model]
        history == IF boxId \in DOMAIN s.results
                   THEN <<s.results[boxId].current>>
                   ELSE <<>>
    IN  [s EXCEPT !.results = Put(@, boxId, [boxId |-> boxId, current |-> version,
                                             history |-> history]),
                  !.generating = Put(@, boxId, FALSE),
                  !.streamBuffers = Put(@, boxId, <<>>)]

completeGeneration(s, boxId, code, prompt, provider, model, versionId) ==
    LET version == [id |-> versionId, code |-> code, prompt |-> prompt,
                    provider |-> provider, model |-> model]
        history == IF boxId \in DOMAIN s.results
                   THEN <<s.results[boxId].current>> \o s.results[boxId].history
                   ELSE <<>>
    IN  [s EXCEPT !.results = Put(@, boxId, [boxId |-> boxId, current |-> version,
                                             history |-> history]),
                  !.generating = Put(@, boxId, FALSE),
                  !.streamBuffers = Put(@, boxId, <<>>)]

\* failGeneration throwing the target's result away
failGeneration_dropsResult(s, boxId) ==
    [s EXCEPT !.results = Del(@, {boxId}),
              !.generating = Put(@, boxId, FALSE),
              !.streamBuffers = Put(@, boxId, <<>>)]

\* failGeneration leaving the generating flag set
failGeneration_keepsGenerating(s, boxId) ==
    [s EXCEPT !.streamBuffers = Put(@, boxId, <<>>)]

failGeneration(s, boxId) ==
    [s EXCEPT !.generating = Put(@, boxId, FALSE),
              !.streamBuffers = Put(@, boxId, <<>>)]

\* Array.prototype.findIndex: first index whose version has the id, 0 for -1
findIndex(history, versionId) ==
    IF \E i \in 1..Len(history) : history[i].id = versionId
    THEN CHOOSE i \in 1..Len(history) :
             /\ history[i].id = versionId
             /\ \A j \in 1..(i - 1) : history[j].id # versionId
    ELSE 0

\* revertToVersion losing the previously current version
revertToVersion_dropsCurrent(s, boxId, versionId) ==
    IF boxId \notin DOMAIN s.results THEN s
    ELSE LET result == s.results[boxId]
             versionIndex == findIndex(result.history, versionId)
         IN  IF versionIndex = 0 THEN s
             ELSE [s EXCEPT !.results = Put(@, boxId,
                      [result EXCEPT !.current = result.history[versionIndex],
                                     !.history = SelectSeq(result.history,
                                                     LAMBDA v : v.id # versionId)])]

\* revertToVersion putting the previously current version where the target was
revertToVersion_inPlace(s, boxId, versionId) ==
    IF boxId \notin DOMAIN s.results THEN s
    ELSE LET result == s.results[boxId]
             versionIndex == findIndex(result.history, versionId)
         IN  IF versionIndex = 0 THEN s
             ELSE [s EXCEPT !.results = Put(@, boxId,
                      [result EXCEPT !.current = result.history[versionIndex],
                                     !.history = [result.history EXCEPT
                                                     ![versionIndex] = result.current]])]

revertToVersion(s, boxId, versionId) ==
    IF boxId \notin DOMAIN s.results THEN s
    ELSE LET result == s.results[boxId]
             versionIndex == findIndex(result.history, versionId)
         IN  IF versionIndex = 0 THEN s
             ELSE LET targetVersion == result.history[versionIndex]
                      newHistory == <<result.current>> \o
                          SelectSeq(result.history, LAMBDA v : v.id # versionId)
                  IN  [s EXCEPT !.results = Put(@, boxId,
                          [result EXCEPT !.current = targetVersion,
                                         !.history = newHistory])]

setLastPrompt(s, prompt) == [s EXCEPT !.lastPrompt = prompt]

mapRequestToBox(s, requestId, boxId) ==
    [s EXCEPT !.requestBoxMap = Put(@, requestId, boxId)]

\* getBoxIdForRequest answering with the request id when there is no entry
getBoxIdForRequest_fallsBack(s, requestId) ==
    IF requestId \in DOMAIN s.requestBoxMap THEN s.requestBoxMap[requestId] ELSE requestId

\* Null for undefined
getBoxIdForRequest(s, requestId) ==
    IF requestId \in DOMAIN s.requestBoxMap THEN s.requestBoxMap[requestId] ELSE Null

\* clearRequest removing nothing
clearRequest_keeps(s, requestId) == s

clearRequest(s, requestId) == [s EXCEPT !.requestBoxMap = Del(@, {requestId})]

(***************************************************************************)
(* Project store                                                           *)
(***************************************************************************)
defaultPageId == 1

(***************************************************************************)
(* Context store.  An optional field is <<>> when it is absent             *)
(***************************************************************************)
defaultContext ==
    [framework |-> "react", language |-> "typescript", uiLibrary |-> "tailwind",
     styleTone |-> "minimalist", constraints |-> <<>>, additionalNotes |-> <<>>,
     componentNamingConvention |-> <<>>]

addBoxToPage(ps, pageId, boxId) ==
    [i \in 1..Len(ps) |->
        IF ps[i].id = pageId THEN [ps[i] EXCEPT !.boxIds = Append(@, boxId)] ELSE ps[i]]

\* a removeBoxFromPage that leaves the list of the page as it is
removeBoxFromPage_keeps(ps, pageId, boxId) == ps

removeBoxFromPage(ps, pageId, boxId) ==
    [i \in 1..Len(ps) |->
        IF ps[i].id = pageId THEN [ps[i] EXCEPT !.boxIds = Without(@, boxId)] ELSE ps[i]]

\* updateSharedComponent(componentId, {latestCode: code})
updateSharedComponentCode(scs, componentId, code) ==
    IF componentId \notin DOMAIN scs THEN scs
    ELSE [scs EXCEPT ![componentId].latestCode = code]

(***************************************************************************)
(* Extension host, before any generate message: AIService.getConfig gives  *)
(* provider 'openai' and no key                                            *)
(***************************************************************************)
Providers == {"openai", "anthropic", "gemini"}

\* nothing stored, no setAIConfig message being served
ConfigIdle ==
    /\ globalState = <<>>
    /\ secrets = [p \in Providers |-> <<>>]
    /\ setting = [pc |-> "idle"]
    /\ echoed = <<>>
    /\ passed = <<>>

NoCalls == [stream |-> 0, plain |-> 0]
IdleProc ==
    [pc |-> "idle", pos |-> 0, pending |-> <<>>, buffer |-> <<>>, fullContent |-> <<>>,
     usage |-> <<>>, cuts |-> {}]

ExtensionIdle ==
    /\ config = [provider |-> "openai", hasKey |-> FALSE]
    /\ vendor = [status |-> "ok"]
    /\ proc = IdleProc
    /\ posted = <<>>
    /\ calls = NoCalls
    /\ ConfigIdle

(***************************************************************************)
(* Specification of the layout store: any sequence of addBox, removeBox    *)
(* and moveBox, with any arguments                                         *)
(***************************************************************************)
\* identifiers a caller can pass: every id nanoid has returned, and one it never did
IdArgs == (1..(nextId - 1)) \cup {GhostId}

InitDefault ==
    /\ boxes = EmptyMap
    /\ nextId = 1
    /\ pages = <<[id |-> defaultPageId, boxIds |-> <<>>]>>
    /\ sharedComponents = EmptyMap
    /\ activePageId = defaultPageId
    /\ context = defaultContext
    /\ results = EmptyMap
    /\ generating = EmptyMap
    /\ streamBuffers = EmptyMap
    /\ requestBoxMap = EmptyMap
    /\ lastPrompt = NullPrompt
    /\ nextVersion = 1
    /\ requestCounter = 0
    /\ host = EmptyMap
    /\ inbox = <<>>
    /\ log = EmptyMap
    /\ completeCalls = EmptyMap
    /\ discarded = "none"
    /\ copyOf = EmptyMap
    /\ ExtensionIdle

AddBox(parentId) ==
    /\ nextId <= MaxBoxes
    /\ boxes' = addBox(boxes, nextId, parentId)
    /\ nextId' = nextId + 1
    /\ UNCHANGED <<extVars, uiVars, projectVars, genVars, wireVars, histVars>>

RemoveBox(boxId) ==
    /\ boxes' = removeBox(boxes, boxId)
    /\ UNCHANGED <<extVars, uiVars, nextId, projectVars, genVars, wireVars, histVars>>

MoveBox(boxId, newParentId, index) ==
    /\ boxes' = moveBox(boxes, boxId, newParentId, index)
    /\ UNCHANGED <<extVars, uiVars, nextId, projectVars, genVars, wireVars, histVars>>

DuplicateBox(boxId) ==
    /\ nextId <= MaxBoxes
    /\ boxes' = duplicateBox(boxes, boxId, nextId)
    /\ nextId' = IF boxId \in DOMAIN boxes THEN nextId + 1 ELSE nextId
    /\ UNCHANGED <<extVars, uiVars, projectVars, genVars, wireVars, histVars>>

NextLayout ==
    \/ \E p \in IdArgs \cup {Null} : AddBox(p)
    \/ \E b \in IdArgs : RemoveBox(b)
    \/ \E b \in IdArgs, p \in IdArgs \cup {Null}, i \in (-1)..MaxIndex : MoveBox(b, p, i)
    \/ \E b \in IdArgs : DuplicateBox(b)

SpecLayout == InitDefault /\ [][NextLayout]_vars

(***************************************************************************)
(* C1: after every addBox, removeBox and moveBox (any arguments) b.id is   *)
(* in p.childIds exactly when b.parentId = p.id, and every non-null        *)
(* parentId names a box of the store.                                      *)
(***************************************************************************)
C1_BackReferences ==
    /\ \A b \in DOMAIN boxes, p \in DOMAIN boxes :
           (b \in SeqSet(boxes[p].childIds)) <=> (boxes[b].parentId = p)
    /\ \A b \in DOMAIN boxes :
           boxes[b].parentId # Null => boxes[b].parentId \in DOMAIN boxes

(***************************************************************************)
(* Specification of the generation store: any sequence of calls of its     *)
(* actions, with any arguments                                             *)
(***************************************************************************)
MaxVersions == 3
MaxBuffer == 1
MaxTargets == 1

Targets == 1..MaxTargets

Codes == {1, 2}
Texts == {<<>>, <<1>>}
VersionArgs == 1..(MaxVersions + 1)

CallsOf(boxId) == IF boxId \in DOMAIN completeCalls THEN completeCalls[boxId] ELSE 0

StartGeneration(boxId) ==
    /\ SetGen(startGeneration(Gen, boxId))
    /\ UNCHANGED <<extVars, uiVars, layoutVars, projectVars, nextVersion, wireVars, histVars>>

AppendChunk(boxId, text) ==
    /\ boxId \in DOMAIN streamBuffers => Len(streamBuffers[boxId]) < MaxBuffer
    /\ SetGen(appendChunk(Gen, boxId, text))
    /\ UNCHANGED <<extVars, uiVars, layoutVars, projectVars, nextVersion, wireVars, histVars>>

CompleteGeneration(boxId, code, prompt) ==
    /\ nextVersion <= MaxVersions
    /\ SetGen(completeGeneration(Gen, boxId, code, prompt, "openai", "gpt-4o", nextVersion))
    /\ nextVersion' = nextVersion + 1
    /\ completeCalls' = Put(completeCalls, boxId, CallsOf(boxId) + 1)
    /\ UNCHANGED <<extVars, uiVars, layoutVars, projectVars, wireVars, log, discarded, copyOf>>

FailGeneration(boxId) ==
    /\ SetGen(failGeneration(Gen, boxId))
    /\ UNCHANGED <<extVars, uiVars, layoutVars, projectVars, nextVersion, wireVars, histVars>>

RevertToVersion(boxId, versionId) ==
    /\ SetGen(revertToVersion(Gen, boxId, versionId))
    /\ UNCHANGED <<extVars, uiVars, layoutVars, projectVars, nextVersion, wireVars, histVars>>

NextStore ==
    \/ \E b \in Targets : StartGeneration(b)
    \/ \E b \in Targets, t \in Texts : AppendChunk(b, t)
    \/ \E b \in Targets, c \in Codes : CompleteGeneration(b, c, b)
    \/ \E b \in Targets : FailGeneration(b)
    \/ \E b \in Targets, v \in VersionArgs : RevertToVersion(b, v)

SpecStore == InitDefault /\ [][NextStore]_vars

\* the ids of the versions held for a target
VersionIds(res, b) ==
    IF b \in DOMAIN res
    THEN {res[b].current.id} \cup {res[b].history[i].id : i \in 1..Len(res[b].history)}
    ELSE {}

VersionCount(res, b) == IF b \in DOMAIN res THEN Len(res[b].history) + 1 ELSE 0

AllVersionIds(res) == UNION {VersionIds(res, b) : b \in DOMAIN res}

(***************************************************************************)
(* C4: revertToVersion is a permutation of a target's versions: it leaves  *)
(* the set of version ids of {current} and history, and |history| + 1,     *)
(* unchanged, so that |history| + 1 is always the number of                *)
(* completeGeneration calls made for the target.                           *)
(***************************************************************************)
C4_CountIsCalls ==
    \A b \in Targets :
        /\ VersionCount(results, b) = CallsOf(b)
        /\ Cardinality(VersionIds(results, b)) = CallsOf(b)

C4_RevertKeepsVersions ==
    \A b \in Targets, v \in VersionArgs :
        RevertToVersion(b, v) =>
            \A t \in Targets :
                /\ VersionIds(results', t) = VersionIds(results, t)
                /\ VersionCount(results', t) = VersionCount(results, t)

C4_RevertIsPermutation == []C4_CountIsCalls /\ [][C4_RevertKeepsVersions]_vars

\* a revert has acted: the current version is older than a superseded one
C4_Witness ==
    \E b \in DOMAIN results :
        /\ Len(results[b].history) = 2
        /\ results[b].current.id < results[b].history[1].id

(***************************************************************************)
(* C5: revertToVersion(t, v) against its reference.                        *)
(***************************************************************************)
RevertApplies(b, v) ==
    /\ b \in DOMAIN results
    /\ \E i \in 1..Len(results[b].history) : results[b].history[i].id = v

RevertIndex(b, v) == CHOOSE i \in 1..Len(results[b].history) : results[b].history[i].id = v

\* as claimed: the previously-current version takes the vacated position i
C5_RefInPlace(b, v) ==
    IF ~RevertApplies(b, v) THEN UNCHANGED vars
    ELSE LET i == RevertIndex(b, v)
             old == results[b]
             new == results'[b]
         IN  /\ new.current = old.history[i]
             /\ Len(new.history) = Len(old.history)
             /\ new.history[i] = old.current
             /\ \A j \in 1..Len(old.history) : j # i => new.history[j] = old.history[j]

\* as coded: the previously-current version goes to the front, the entries
\* before i move one place down, the entries after i stay
C5_RefToFront(b, v) ==
    IF ~RevertApplies(b, v) THEN UNCHANGED vars
    ELSE LET i == RevertIndex(b, v)
             old == results[b]
             new == results'[b]
         IN  /\ new.current = old.history[i]
             /\ Len(new.history) = Len(old.history)
             /\ new.history[1] = old.current
             /\ \A j \in 1..Len(old.history) :
                    /\ j < i => new.history[j + 1] = old.history[j]
                    /\ j > i => new.history[j] = old.history[j]
             /\ \A t \in DOMAIN results : t # b => results'[t] = results[t]
             /\ DOMAIN results' = DOMAIN results
             /\ UNCHANGED <<generating, streamBuffers, requestBoxMap, lastPrompt>>

\* C5 as claimed: a revert to the history entry at index i puts the previously
\* current version at index i and keeps every other entry in place; a revert
\* of an unknown target or version changes nothing.
C5_RevertInPlace ==
    [][\A b \in Targets, v \in VersionArgs :
           RevertToVersion(b, v) => C5_RefInPlace(b, v)]_vars

\* C5 amended: a revert to the history entry at index i makes that entry
\* current and makes history the previously current version followed by the
\* old history without entry i; a revert of an unknown target or version
\* changes nothing.
C5_RevertToFront ==
    [][\A b \in Targets, v \in VersionArgs :
           RevertToVersion(b, v) => C5_RefToFront(b, v)]_vars

\* a revert to the second history entry has acted
C5_Witness ==
    \E b \in DOMAIN results :
        /\ Len(results[b].history) = 2
        /\ results[b].current.id < results[b].history[2].id
        /\ results[b].history[2].id < results[b].history[1].id

(***************************************************************************)
(* C6: completeGeneration(t, code, ...) creates one new version, makes it  *)
(* current, makes history the previous current followed by the previous    *)
(* history (empty when t had no result), and sets generating[t] = false    *)
(* and the buffer of t to empty; two successive completes leave a history  *)
(* of length 1 holding the first version under the second.                 *)
(***************************************************************************)
C6_RefComplete(b, c) ==
    LET new == results'[b]
    IN  /\ new.current.id \notin AllVersionIds(results)
        /\ new.current.code = c
        /\ new.boxId = b
        /\ IF b \in DOMAIN results
           THEN /\ Len(new.history) = Len(results[b].history) + 1
                /\ new.history[1] = results[b].current
                /\ \A j \in 1..Len(results[b].history) :
                       new.history[j + 1] = results[b].history[j]
           ELSE new.history = <<>>
        /\ CallsOf(b) = 1 /\ b \in DOMAIN results =>
               /\ Len(new.history) = 1
               /\ new.history[1] = results[b].current
        /\ \A t \in DOMAIN results : t # b => results'[t] = results[t]
        /\ generating'[b] = FALSE
        /\ streamBuffers'[b] = <<>>

C6_CompletePushes ==
    [][\A b \in Targets, c \in Codes :
           CompleteGeneration(b, c, b) => C6_RefComplete(b, c)]_vars

\* a third complete for one target has acted
C6_Witness ==
    \E b \in DOMAIN results :
        /\ CallsOf(b) = 3
        /\ Len(results[b].history) = 2
        /\ generating[b] = FALSE

(***************************************************************************)
(* C7: appendChunk(t, text) for a target whose generating flag is not true *)
(* is a no-op: the buffer of t stays absent or empty and nothing else      *)
(* changes.                                                                *)
(***************************************************************************)
IsGenerating(b) == b \in DOMAIN generating /\ generating[b]

C7_AppendChunkIdleNoop ==
    [][\A b \in Targets, t \in Texts :
           (AppendChunk(b, t) /\ ~IsGenerating(b)) =>
               /\ b \in DOMAIN streamBuffers' => streamBuffers'[b] = <<>>
               /\ UNCHANGED <<results, generating, requestBoxMap, lastPrompt>>]_vars

(***************************************************************************)
(* Specification of the generation protocol: the generate actions of the   *)
(* webview, the handleGenerate calls of the host, and the listeners of the *)
(* webview that route the host's messages by requestBoxMap.                *)
(* The project has one page with the root boxes 1 and 2; box 2 is an       *)
(* instance of shared component 1.  The host posts a message when fewer    *)
(* than MaxInbox messages wait for dispatch.                               *)
(***************************************************************************)
MaxRequests == 2
MaxChunks == 1
MaxInbox == 1

\* the boxes of the project
ProjectBoxes == {1, 2}

\* the user prompt assembled for a box, and for a page
BoxPrompt(boxId) == boxId
PagePrompt(pageId) == 100 + pageId
\* the code the provider returns for a request
CodeOf(requestId) == requestId

InitGen ==
    /\ boxes = [addBox(addBox(EmptyMap, 1, Null), 2, Null) EXCEPT ![2].sharedComponentId = 1]
    /\ nextId = 3
    /\ pages = <<[id |-> 1, boxIds |-> <<1, 2>>]>>
    /\ sharedComponents = (1 :> [id |-> 1, latestCode |-> Null, instanceIds |-> <<2>>])
    /\ activePageId = defaultPageId
    /\ context = defaultContext
    /\ results = EmptyMap
    /\ generating = EmptyMap
    /\ streamBuffers = EmptyMap
    /\ requestBoxMap = EmptyMap
    /\ lastPrompt = NullPrompt
    /\ nextVersion = 1
    /\ requestCounter = 0
    /\ host = EmptyMap
    /\ inbox = <<>>
    /\ log = EmptyMap
    /\ completeCalls = EmptyMap
    /\ discarded = "none"
    /\ copyOf = EmptyMap
    /\ ExtensionIdle

\* bridge.send({type: 'generate', id, payload}): the host starts handleGenerate
SendGenerate(requestId, userPrompt) ==
    host' = Put(host, requestId,
                [prompt |-> userPrompt, chunks |-> 0, settled |-> FALSE])

\* FreeformBox.handleGenerateBox
GenerateBox(boxId) ==
    /\ boxId \in DOMAIN boxes
    /\ requestCounter < MaxRequests
    /\ LET userPrompt == BoxPrompt(boxId)
           requestId == requestCounter + 1
           s1 == setLastPrompt(Gen, [userPrompt |-> userPrompt, target |-> "box",
                                     targetId |-> boxId])
           s2 == startGeneration(s1, boxId)
           s3 == mapRequestToBox(s2, requestId, boxId)
       IN  /\ SetGen(s3)
           /\ requestCounter' = requestId
           /\ SendGenerate(requestId, userPrompt)
           /\ log' = Put(log, requestId,
                         [kind |-> "box", mapped |-> boxId, boxIds |-> <<boxId>>])
    /\ UNCHANGED <<extVars, uiVars, layoutVars, projectVars, nextVersion, inbox, completeCalls, discarded, copyOf>>

\* the loop starting only the box the request is mapped to
startAll_firstOnly(s, boxIds) ==
    IF boxIds = <<>> THEN s ELSE startGeneration(s, Head(boxIds))

\* for (const boxId of activePage.boxIds) startGeneration(boxId)
RECURSIVE startAll(_, _)
startAll(s, boxIds) ==
    IF boxIds = <<>> THEN s
    ELSE startAll(startGeneration(s, Head(boxIds)), Tail(boxIds))

\* the Generate Page button is disabled when the page has no boxes or one of
\* them is generating
pageHasBoxes(page) == Len(page.boxIds) > 0
isAnyGenerating(page) ==
    \E i \in 1..Len(page.boxIds) :
        page.boxIds[i] \in DOMAIN generating /\ generating[page.boxIds[i]]

\* Toolbar.handleGeneratePage, activePage = pages[p]
GeneratePage(p) ==
    /\ pageHasBoxes(pages[p]) /\ ~isAnyGenerating(pages[p])
    /\ requestCounter < MaxRequests
    /\ LET activePage == pages[p]
           userPrompt == PagePrompt(activePage.id)
           requestId == requestCounter + 1
           firstBoxId == IF Len(activePage.boxIds) > 0 THEN activePage.boxIds[1] ELSE Null
           s1 == setLastPrompt(Gen, [userPrompt |-> userPrompt, target |-> "page",
                                     targetId |-> activePage.id])
           s2 == startAll(s1, activePage.boxIds)
           s3 == IF firstBoxId # Null THEN mapRequestToBox(s2, requestId, firstBoxId) ELSE s2
       IN  /\ SetGen(s3)
           /\ requestCounter' = requestId
           /\ SendGenerate(requestId, userPrompt)
           /\ log' = Put(log, requestId,
                         [kind |-> "page", mapped |-> firstBoxId, boxIds |-> activePage.boxIds])
    /\ UNCHANGED <<extVars, uiVars, layoutVars, projectVars, nextVersion, inbox, completeCalls, discarded, copyOf>>

\* panel.postMessage
Message(type, requestId, text, code) ==
    [type |-> type, id |-> requestId, text |-> text, code |-> code]

\* handleGenerate: the onChunk callback posts the next chunk of a stream of
\* at most limit chunks
StreamChunk(requestId, limit) ==
    /\ requestId \in DOMAIN host
    /\ Len(inbox) < MaxInbox
    /\ ~host[requestId].settled
    /\ host[requestId].chunks < limit
    /\ host' = [host EXCEPT ![requestId].chunks = @ + 1]
    /\ inbox' = Append(inbox, Message("generateChunk", requestId,
                                      <<<<requestId, host[requestId].chunks + 1>>>>, Null))
    /\ UNCHANGED <<extVars, uiVars, layoutVars, projectVars, genVars, requestCounter, histVars>>

HostChunk(requestId) == StreamChunk(requestId, MaxChunks)

\* handleGenerate: aiService.generate resolved; the call returns and its
\* position in the stream is gone
HostComplete(requestId) ==
    /\ requestId \in DOMAIN host
    /\ Len(inbox) < MaxInbox
    /\ ~host[requestId].settled
    /\ host' = [host EXCEPT ![requestId].settled = TRUE, ![requestId].chunks = 0]
    /\ inbox' = Append(inbox, Message("generateComplete", requestId, <<>>, CodeOf(requestId)))
    /\ UNCHANGED <<extVars, uiVars, layoutVars, projectVars, genVars, requestCounter, histVars>>

\* handleGenerate: aiService.generate rejected
HostError(requestId) ==
    /\ requestId \in DOMAIN host
    /\ Len(inbox) < MaxInbox
    /\ ~host[requestId].settled
    /\ host' = [host EXCEPT ![requestId].settled = TRUE, ![requestId].chunks = 0]
    /\ inbox' = Append(inbox, Message("generateError", requestId, <<>>, Null))
    /\ UNCHANGED <<extVars, uiVars, layoutVars, projectVars, genVars, requestCounter, histVars>>

\* the message the bridge dispatches next
Dispatching(type) == inbox # <<>> /\ Head(inbox).type = type

\* useAIListeners: bridge.on('generateChunk')
OnGenerateChunk ==
    /\ Dispatching("generateChunk")
    /\ LET msg == Head(inbox)
           boxId == getBoxIdForRequest(Gen, msg.id)
       IN  /\ SetGen(IF boxId # Null THEN appendChunk(Gen, boxId, msg.text) ELSE Gen)
           /\ discarded' = IF boxId # Null THEN discarded ELSE msg.type
    /\ inbox' = Tail(inbox)
    /\ UNCHANGED <<extVars, uiVars, layoutVars, projectVars, nextVersion, requestCounter, host, log, completeCalls,
                   copyOf>>

\* useAIListeners: bridge.on('generateComplete')
OnGenerateComplete ==
    /\ Dispatching("generateComplete")
    /\ LET msg == Head(inbox)
           boxId == getBoxIdForRequest(Gen, msg.id)
       IN  IF boxId # Null
           THEN /\ SetGen(clearRequest(
                       completeGeneration(Gen, boxId, msg.code, lastPrompt.userPrompt,
                                          "ai", "", nextVersion),
                       msg.id))
                /\ nextVersion' = nextVersion + 1
                /\ completeCalls' = Put(completeCalls, boxId, CallsOf(boxId) + 1)
                /\ sharedComponents' =
                       IF boxId \in DOMAIN boxes /\ boxes[boxId].sharedComponentId # Null
                       THEN updateSharedComponentCode(sharedComponents,
                                boxes[boxId].sharedComponentId, msg.code)
                       ELSE sharedComponents
                /\ UNCHANGED discarded
           ELSE /\ SetGen(Gen)
                /\ discarded' = msg.type
                /\ UNCHANGED <<nextVersion, completeCalls, sharedComponents>>
    /\ inbox' = Tail(inbox)
    /\ UNCHANGED <<extVars, uiVars, layoutVars, pages, requestCounter, host, log, copyOf>>

\* useAIListeners: bridge.on('generateError')
OnGenerateError ==
    /\ Dispatching("generateError")
    /\ LET msg == Head(inbox)
           boxId == getBoxIdForRequest(Gen, msg.id)
       IN  /\ SetGen(IF boxId # Null
                      THEN clearRequest(failGeneration(Gen, boxId), msg.id)
                      ELSE Gen)
           /\ discarded' = IF boxId # Null THEN discarded ELSE msg.type
    /\ inbox' = Tail(inbox)
    /\ UNCHANGED <<extVars, uiVars, layoutVars, projectVars, nextVersion, requestCounter, host, log, completeCalls,
                   copyOf>>

HostStep == \E r \in 1..MaxRequests : HostChunk(r) \/ HostComplete(r) \/ HostError(r)
Dispatch == OnGenerateChunk \/ OnGenerateComplete \/ OnGenerateError

NextGen ==
    \/ \E b \in BoxIds : GenerateBox(b)
    \/ \E p \in 1..Len(pages) : GeneratePage(p)
    \/ \E r \in 1..MaxRequests : HostChunk(r)
    \/ \E r \in 1..MaxRequests : HostComplete(r)
    \/ \E r \in 1..MaxRequests : HostError(r)
    \/ OnGenerateChunk
    \/ OnGenerateComplete
    \/ OnGenerateError

SpecGen == InitGen /\ [][NextGen]_vars

\* the host answers every request and the bridge dispatches every message
SpecGenFair == SpecGen /\ WF_vars(HostStep) /\ WF_vars(Dispatch)

\* a message of the request waits for dispatch
InFlight(requestId) == \E i \in 1..Len(inbox) : inbox[i].id = requestId

\* the terminal message of the request has been posted and handled
Answered(requestId) ==
    /\ requestId \in DOMAIN host
    /\ host[requestId].settled
    /\ ~InFlight(requestId)

\* a version holds the code of the request: its generateComplete was handled
Completed(requestId) ==
    \E b \in DOMAIN results :
        \/ results[b].current.code = CodeOf(requestId)
        \/ \E i \in 1..Len(results[b].history) : results[b].history[i].code = CodeOf(requestId)

IsTerminal(msg) == msg.type \in {"generateComplete", "generateError"}

\* the entry of a key as a sequence of at most one element
Lookup(f, k) == IF k \in DOMAIN f THEN <<f[k]>> ELSE <<>>

(***************************************************************************)
(* C2: once a second request r2 is started and mapped for a box b that an  *)
(* earlier request r1 is mapped to, the buffer of b holds only chunks of   *)
(* r2, in delivery order, and the late messages of r1 change neither the   *)
(* buffer of b, nor its generating flag, nor its result.                   *)
(***************************************************************************)
RequestsFor(b) == {r \in DOMAIN log : log[r].mapped = b}
LatestFor(b) == CHOOSE r \in RequestsFor(b) : \A q \in RequestsFor(b) : q <= r
Superseded(r) == \E q \in RequestsFor(log[r].mapped) : q > r

C2_BufferOnlyLatest ==
    \A b \in DOMAIN streamBuffers :
        Cardinality(RequestsFor(b)) >= 2 =>
            \A i \in 1..Len(streamBuffers[b]) : streamBuffers[b][i] = <<LatestFor(b), i>>

C2_LateMessagesIgnored ==
    (Dispatch /\ Superseded(Head(inbox).id)) =>
        LET b == log[Head(inbox).id].mapped
        IN  /\ Lookup(streamBuffers', b) = Lookup(streamBuffers, b)
            /\ Lookup(generating', b) = Lookup(generating, b)
            /\ Lookup(results', b) = Lookup(results, b)

C2_SupersededRequestIgnored == []C2_BufferOnlyLatest /\ [][C2_LateMessagesIgnored]_vars

(***************************************************************************)
(* C3: Generate Page on a page with N >= 2 root boxes marks all N boxes    *)
(* generating, sends one request and maps it to page.boxIds[0] only; the   *)
(* generating flag of a box is cleared only by the terminal message of a   *)
(* request mapped to that box, so the other N - 1 boxes, to which no       *)
(* request is mapped, are still generating after the page request has      *)
(* been answered.                                                          *)
(***************************************************************************)
NoRequestFor(b) == RequestsFor(b) = {}

C3_OthersStayGenerating ==
    \A r \in DOMAIN log :
        (log[r].kind = "page" /\ Len(log[r].boxIds) >= 2) =>
            /\ r \in DOMAIN requestBoxMap => requestBoxMap[r] = log[r].boxIds[1]
            /\ \A i \in 2..Len(log[r].boxIds) :
                   NoRequestFor(log[r].boxIds[i]) => IsGenerating(log[r].boxIds[i])

C3_PageStep ==
    /\ \A p \in 1..Len(pages) :
           GeneratePage(p) =>
               /\ \A i \in 1..Len(pages[p].boxIds) : IsGenerating(pages[p].boxIds[i])'
               /\ (DOMAIN host') \ (DOMAIN host) = {requestCounter'}
               /\ (DOMAIN requestBoxMap') \ (DOMAIN requestBoxMap) = {requestCounter'}
               /\ requestBoxMap'[requestCounter'] = pages[p].boxIds[1]
    /\ \A b \in BoxIds :
           (IsGenerating(b) /\ ~IsGenerating(b)') =>
               /\ inbox # <<>>
               /\ IsTerminal(Head(inbox))
               /\ getBoxIdForRequest(Gen, Head(inbox).id) = b

C8_ErrorStep ==
    /\ (OnGenerateError /\ getBoxIdForRequest(Gen, Head(inbox).id) # Null) =>
           LET b == getBoxIdForRequest(Gen, Head(inbox).id)
           IN  /\ results' = results
               /\ nextVersion' = nextVersion
               /\ generating'[b] = FALSE
               /\ streamBuffers'[b] = <<>>
    /\ OnGenerateChunk => results' = results
    /\ (\E b \in BoxIds : GenerateBox(b)) => results' = results
    /\ (\E p \in 1..Len(pages) : GeneratePage(p)) => results' = results

C8_ErrorCreatesNoVersion == [][C8_ErrorStep]_vars

\* a request was answered by an error; its target has the result of an
\* earlier request
C8_Witness ==
    \E r \in DOMAIN host :
        /\ Answered(r)
        /\ ~Completed(r)
        /\ log[r].mapped \in DOMAIN results
        /\ ~IsGenerating(log[r].mapped)
        /\ streamBuffers[log[r].mapped] = <<>>

(***************************************************************************)
(* C9: every key of requestBoxMap is the id of a request that was sent and *)
(* whose generateComplete or generateError has not been handled yet; when  *)
(* every sent request has been answered the map is empty.                  *)
(***************************************************************************)
C9_MapHoldsOnlyUnanswered ==
    /\ \A r \in DOMAIN requestBoxMap : r \in DOMAIN host /\ ~Answered(r)
    /\ (\A r \in DOMAIN host : Answered(r)) => requestBoxMap = EmptyMap

\* requests were sent and all of them have been answered
C9_Witness ==
    /\ DOMAIN host # {}
    /\ \A r \in DOMAIN host : Answered(r)
    /\ \E r \in DOMAIN host : ~Completed(r)
    /\ \E r \in DOMAIN host : Completed(r)

(***************************************************************************)
(* C10: a single-box generate action on b sets generating[b]; when the     *)
(* host answers and nothing else starts b, generating[b] becomes false     *)
(* again, by the terminal message of that request and only by it, and      *)
(* stays false.                                                            *)
(***************************************************************************)
StartersOf(b) == {r \in DOMAIN log : b \in SeqSet(log[r].boxIds)}
Sole(b) == Cardinality(StartersOf(b)) = 1 /\ \A r \in StartersOf(b) : log[r].kind = "box"
SoleRequest(b) == CHOOSE r \in StartersOf(b) : TRUE

C10_Eventually ==
    \A b \in ProjectBoxes : (IsGenerating(b) /\ Sole(b)) ~> (~IsGenerating(b) \/ ~Sole(b))

C10_Step ==
    \A b \in BoxIds :
        /\ GenerateBox(b) => IsGenerating(b)'
        /\ (Sole(b) /\ Sole(b)') =>
               /\ (IsGenerating(b) /\ ~IsGenerating(b)') =>
                      /\ OnGenerateComplete \/ OnGenerateError
                      /\ Head(inbox).id = SoleRequest(b)
               /\ ~IsGenerating(b) => ~IsGenerating(b)'

C10_GeneratingEnds == C10_Eventually /\ [][C10_Step]_vars

\* the only request for a box has been answered and the box is idle again
C10_Witness ==
    \E b \in DOMAIN generating :
        /\ Sole(b)
        /\ Answered(SoleRequest(b))
        /\ ~generating[b]

(***************************************************************************)
(* Specification of the protocol with longer streams: as SpecGen, each     *)
(* request streaming up to MaxStream chunks.                               *)
(***************************************************************************)
MaxStream == 2

NextStream ==
    \/ \E b \in BoxIds : GenerateBox(b)
    \/ \E p \in 1..Len(pages) : GeneratePage(p)
    \/ \E r \in 1..MaxRequests : StreamChunk(r, MaxStream)
    \/ \E r \in 1..MaxRequests : HostComplete(r)
    \/ \E r \in 1..MaxRequests : HostError(r)
    \/ OnGenerateChunk
    \/ OnGenerateComplete
    \/ OnGenerateError

SpecStream == InitGen /\ [][NextStream]_vars

\* the number of chunk messages of the request waiting for dispatch
ChunksInFlight(requestId) ==
    Cardinality({i \in 1..Len(inbox) :
                    inbox[i].id = requestId /\ inbox[i].type = "generateChunk"})

\* b is the target of one request only
OwnRequest(b) == Cardinality(RequestsFor(b)) = 1
RequestOf(b) == CHOOSE r \in RequestsFor(b) : TRUE

(***************************************************************************)
(* C11: for requests mapped to different boxes, under every interleaving   *)
(* of their messages, the buffer of each box is the in-order concatenation *)
(* of the chunks of its own request delivered so far, a message of one     *)
(* request changes nothing of the other box, and the completed current     *)
(* code of each box is the code of its own request.                        *)
(***************************************************************************)
C11_OwnChunksInOrder ==
    \A b \in ProjectBoxes :
        OwnRequest(b) =>
            LET r == RequestOf(b)
            IN  /\ b \in DOMAIN streamBuffers
                /\ \A i \in 1..Len(streamBuffers[b]) : streamBuffers[b][i] = <<r, i>>
                /\ ~host[r].settled =>
                       Len(streamBuffers[b]) + ChunksInFlight(r) = host[r].chunks
                /\ b \in DOMAIN results =>
                       /\ results[b].current.code = CodeOf(r)
                       /\ results[b].history = <<>>

C11_OwnMessagesOnly ==
    \A b \in ProjectBoxes :
        (Dispatch /\ OwnRequest(b)) =>
            LET msg == Head(inbox)
            IN  IF msg.id = RequestOf(b)
                THEN /\ msg.type = "generateChunk" =>
                            streamBuffers'[b] = streamBuffers[b] \o msg.text
                     /\ msg.type = "generateComplete" =>
                            results'[b].current.code = CodeOf(msg.id)
                ELSE /\ Lookup(streamBuffers', b) = Lookup(streamBuffers, b)
                     /\ Lookup(results', b) = Lookup(results, b)
                     /\ Lookup(generating', b) = Lookup(generating, b)

C11_ConcurrentRequestsIsolated == []C11_OwnChunksInOrder /\ [][C11_OwnMessagesOnly]_vars

\* two requests for two boxes are unanswered, their chunks were delivered
\* interleaved: both buffers are filled, one with two chunks
C11_Witness ==
    /\ OwnRequest(1) /\ OwnRequest(2)
    /\ RequestOf(1) \in DOMAIN requestBoxMap
    /\ RequestOf(2) \in DOMAIN requestBoxMap
    /\ Len(streamBuffers[1]) = 2
    /\ Len(streamBuffers[2]) = 1
    /\ inbox # <<>> /\ Head(inbox).id = RequestOf(2)

(***************************************************************************)
(* Specification of the protocol with messages from outside: as SpecGen,   *)
(* and the window also receives messages for requests that were answered   *)
(* before or that the webview never made, one such message waiting for     *)
(* dispatch at a time.                                                     *)
(***************************************************************************)
\* a request id the bridge never returns
GhostRequest == MaxRequests + 1
\* a request that was made and whose entry is gone from requestBoxMap
Abandoned(requestId) ==
    /\ requestId \in DOMAIN host
    /\ host[requestId].settled
    /\ requestId \notin DOMAIN requestBoxMap

StrayMessages ==
    {Message(t, r, IF t = "generateChunk" THEN <<<<r, 0>>>> ELSE <<>>,
             IF t = "generateComplete" THEN CodeOf(r) ELSE Null) :
        t \in {"generateChunk", "generateComplete", "generateError"},
        r \in 1..GhostRequest}

\* window.addEventListener('message'): an event the host's handleGenerate
\* calls did not post
WindowMessage(msg) ==
    /\ Len(inbox) < MaxInbox
    /\ msg.id = GhostRequest \/ Abandoned(msg.id)
    /\ \A i \in 1..Len(inbox) : inbox[i].id \in DOMAIN requestBoxMap
    /\ inbox' = Append(inbox, msg)
    /\ UNCHANGED <<extVars, uiVars, layoutVars, projectVars, genVars, requestCounter, host, histVars>>

NextWindow ==
    \/ \E b \in BoxIds : GenerateBox(b)
    \/ \E p \in 1..Len(pages) : GeneratePage(p)
    \/ \E r \in 1..MaxRequests : HostChunk(r)
    \/ \E r \in 1..MaxRequests : HostComplete(r)
    \/ \E r \in 1..MaxRequests : HostError(r)
    \/ \E msg \in StrayMessages : WindowMessage(msg)
    \/ OnGenerateChunk
    \/ OnGenerateComplete
    \/ OnGenerateError

SpecWindow == InitGen /\ [][NextWindow]_vars

(***************************************************************************)
(* C12: a generateChunk, generateComplete or generateError message whose   *)
(* request id is not a key of requestBoxMap is consumed and leaves         *)
(* results, generating, streamBuffers and requestBoxMap unchanged.         *)
(***************************************************************************)
C12_UnmappedStep ==
    (Dispatch /\ Head(inbox).id \notin DOMAIN requestBoxMap) =>
        /\ inbox' = Tail(inbox)
        /\ UNCHANGED <<results, generating, streamBuffers, requestBoxMap>>
        /\ UNCHANGED <<lastPrompt, nextVersion, sharedComponents, completeCalls>>

C12_UnmappedMessageIgnored == [][C12_UnmappedStep]_vars

\* a generateComplete for an id that is no key of requestBoxMap was consumed
\* while a request was streaming into its box
C12_Witness ==
    /\ discarded = "generateComplete"
    /\ \E r \in DOMAIN requestBoxMap : streamBuffers[requestBoxMap[r]] # <<>>

(***************************************************************************)
(* C13: every version created when generateComplete of request r is        *)
(* handled records the user prompt sent in the generate message of r.      *)
(***************************************************************************)
\* the versions held for a target
Versions(b) == {results[b].current} \cup SeqSet(results[b].history)

C13_PromptIsOwn ==
    \A b \in DOMAIN results : \A v \in Versions(b) :
        \A r \in DOMAIN host : v.code = CodeOf(r) => v.prompt = host[r].prompt

(***************************************************************************)
(* Specification of the canvas: the layout store and the page's box list   *)
(* as the handlers of Canvas, FreeformBox and Box drive them, on the       *)
(* active page.  A handler runs on a box that is rendered: a      *)
(* top-level box of the page or a box reached from one through childIds.   *)
(***************************************************************************)
\* pages.find(p => p.id === activePageId)?.boxIds ?? []
pageBoxIds ==
    LET found == SelectSeq(pages, LAMBDA p : p.id = activePageId)
    IN  IF found = <<>> THEN <<>> ELSE found[1].boxIds

\* topLevelBoxes: pageBoxIds.map(id => boxes[id]).filter(Boolean)
TopLevel == {b \in SeqSet(pageBoxIds) : b \in DOMAIN boxes}
\* the nested boxes the top-level boxes render, level by level
Nested ==
    ((UNION {collectDescendants(boxes, t) : t \in TopLevel}) \ TopLevel) \cap DOMAIN boxes
\* a SortableBoxList is rendered for a box that has children
Containers == {b \in TopLevel \cup Nested : Len(boxes[b].childIds) > 0}

\* Array.prototype.indexOf, -1 when absent
IndexOf(seq, x) ==
    IF x \in SeqSet(seq)
    THEN (CHOOSE i \in 1..Len(seq) : seq[i] = x /\ \A j \in 1..(i - 1) : seq[j] # x) - 1
    ELSE -1

\* the scroll offsets of the viewport
Scrolls == {0, 40}

\* Canvas.handleAddBox
HandleAddBox(scrollLeft, scrollTop) ==
    /\ nextId <= MaxBoxes
    /\ LET offset == Cardinality(TopLevel) * 40
           added == addBox(boxes, nextId, Null)
       IN  boxes' = updateBoxPosition(added, nextId,
                                      scrollLeft + 80 + offset, scrollTop + 80 + offset)
    /\ pages' = addBoxToPage(pages, activePageId, nextId)
    /\ nextId' = nextId + 1
    /\ UNCHANGED <<extVars, uiVars, sharedComponents, genVars, wireVars, histVars>>

\* FreeformBox.handleAddChild, Box.handleAddChild
HandleAddChild(boxId) ==
    /\ boxId \in TopLevel \cup Nested
    /\ AddBox(boxId)

\* FreeformBox.handleDelete
HandleDeleteTop(boxId) ==
    /\ boxId \in TopLevel
    /\ pages' = removeBoxFromPage(pages, activePageId, boxId)
    /\ boxes' = removeBox(boxes, boxId)
    /\ UNCHANGED <<extVars, uiVars, nextId, sharedComponents, genVars, wireVars, histVars>>

\* Box.handleDelete
HandleDeleteNested(boxId) ==
    /\ boxId \in Nested
    /\ RemoveBox(boxId)

\* FreeformBox.handleDuplicate
HandleDuplicateTop(boxId) ==
    /\ boxId \in TopLevel
    /\ nextId <= MaxBoxes
    /\ boxes' = duplicateBox(boxes, boxId, nextId)
    /\ pages' = addBoxToPage(pages, activePageId, nextId)
    /\ nextId' = nextId + 1
    /\ copyOf' = Put(copyOf, nextId, boxId)
    /\ UNCHANGED <<extVars, uiVars, sharedComponents, genVars, wireVars, log, completeCalls, discarded>>

\* Box.handleDuplicate
HandleDuplicateNested(boxId) ==
    /\ boxId \in Nested
    /\ nextId <= MaxBoxes
    /\ boxes' = duplicateBox(boxes, boxId, nextId)
    /\ nextId' = nextId + 1
    /\ copyOf' = Put(copyOf, nextId, boxId)
    /\ UNCHANGED <<extVars, uiVars, projectVars, genVars, wireVars, log, completeCalls, discarded>>

\* Canvas.handleDragEnd, over a container: the droppable of the children of
\* targetParentId
HandleDropOnContainer(activeId, targetParentId) ==
    /\ activeId \in Nested
    /\ targetParentId \in Containers
    /\ MoveBox(activeId, targetParentId, Len(boxes[targetParentId].childIds))

\* Canvas.handleDragEnd, over another nested box
HandleDropOnBox(activeId, overId) ==
    /\ activeId \in Nested
    /\ overId \in Nested
    /\ activeId # overId
    /\ LET targetParentId == boxes[overId].parentId
           siblingIds == IF targetParentId # Null
                         THEN IF targetParentId \in DOMAIN boxes
                              THEN boxes[targetParentId].childIds ELSE <<>>
                         ELSE pageBoxIds
           overIndex == IndexOf(siblingIds, overId)
           insertIndex == IF overIndex >= 0 THEN overIndex ELSE Len(siblingIds)
       IN  MoveBox(activeId, targetParentId, insertIndex)

NextCanvas ==
    \/ \E scrollLeft \in Scrolls, scrollTop \in Scrolls : HandleAddBox(scrollLeft, scrollTop)
    \/ \E b \in BoxIds : HandleAddChild(b)
    \/ \E b \in BoxIds : HandleDeleteTop(b)
    \/ \E b \in BoxIds : HandleDeleteNested(b)
    \/ \E b \in BoxIds : HandleDuplicateTop(b)
    \/ \E b \in BoxIds : HandleDuplicateNested(b)
    \/ \E a \in BoxIds, p \in BoxIds : HandleDropOnContainer(a, p)
    \/ \E a \in BoxIds, o \in BoxIds : HandleDropOnBox(a, o)

SpecCanvas == InitDefault /\ [][NextCanvas]_vars

(***************************************************************************)
(* The tree of boxes                                                       *)
(***************************************************************************)
\* id and the boxes reached from it through childIds
Descendants(bs, id) == collectDescendants(bs, id) \cap DOMAIN bs

\* following parentId from b reaches a box with parentId = null within n steps
RECURSIVE ReachesRoot(_, _, _)
ReachesRoot(bs, b, n) ==
    IF b \notin DOMAIN bs THEN FALSE
    ELSE IF bs[b].parentId = Null THEN TRUE
    ELSE IF n = 0 THEN FALSE
    ELSE ReachesRoot(bs, bs[b].parentId, n - 1)

\* the ids met following parentId from b for n steps
RECURSIVE Ancestors(_, _, _)
Ancestors(bs, b, n) ==
    IF n = 0 \/ b \notin DOMAIN bs \/ bs[b].parentId = Null THEN {}
    ELSE {bs[b].parentId} \cup Ancestors(bs, bs[b].parentId, n - 1)

\* the boxes of one sibling group
Siblings(bs, parentId) == {b \in DOMAIN bs : bs[b].parentId = parentId}
Groups(bs) == {Null} \cup {bs[b].parentId : b \in DOMAIN bs}

\* identifiers that name no box
Missing == IdArgs \ DOMAIN boxes

(***************************************************************************)
(* C14: in every state reachable by addBox, moveBox, removeBox and         *)
(* duplicateBox (any arguments) the boxes form a rooted forest: following  *)
(* parentId from any box reaches a box with parentId = null, no box is its *)
(* own ancestor, and the recursive descendant walk from any box terminates.*)
(***************************************************************************)
C14_RootedForest ==
    \A b \in DOMAIN boxes :
        /\ ReachesRoot(boxes, b, Cardinality(DOMAIN boxes))
        /\ b \notin Ancestors(boxes, b, Cardinality(DOMAIN boxes))
        /\ ~Overflows(boxes, b)

(***************************************************************************)
(* C15: removeBox(id) on an existing box deletes exactly id and its        *)
(* transitive descendants; every surviving box keeps all its fields,       *)
(* except that the childIds of the former parent no longer contains id.    *)
(***************************************************************************)
C15_RemoveDeletesSubtree ==
    \A id \in DOMAIN boxes :
        LET after == removeBox(boxes, id)
        IN  /\ DOMAIN after = (DOMAIN boxes) \ Descendants(boxes, id)
            /\ \A c \in DOMAIN after :
                   after[c] = IF c = boxes[id].parentId
                              THEN [boxes[c] EXCEPT !.childIds = Without(@, id)]
                              ELSE boxes[c]

(***************************************************************************)
(* C16: immediately after any removeBox, addBox or duplicateBox the order  *)
(* values of the n boxes of every sibling group are exactly 0..n-1.        *)
(***************************************************************************)
Dense(bs) ==
    \A p \in Groups(bs) :
        {bs[b].order : b \in Siblings(bs, p)} = 0..(Cardinality(Siblings(bs, p)) - 1)

C16_OrderDense ==
    [][((\E b \in IdArgs : RemoveBox(b)) \/ (\E p \in IdArgs \cup {Null} : AddBox(p))
          \/ (\E b \in IdArgs : DuplicateBox(b))) => Dense(boxes')]_vars

(***************************************************************************)
(* C17: in every reachable state, the children of a container listed in    *)
(* childIds order are the same sequence as getChildren gives by sorting    *)
(* them by their order field.                                              *)
(***************************************************************************)
C17_ChildIdsInOrder ==
    \A p \in DOMAIN boxes :
        LET sorted == getChildren(boxes, p)
        IN  [i \in 1..Len(sorted) |-> sorted[i].id] =
                SelectSeq(boxes[p].childIds, LAMBDA id : id \in DOMAIN boxes)

(***************************************************************************)
(* C18: every layout-store operation given an identifier that names no     *)
(* box leaves the boxes map unchanged: addBox with such a parent id,       *)
(* moveBox with such a box id or new-parent id, and removeBox, updateBox,  *)
(* updateBoxPosition, updateBoxSize, updateBoxSpec and duplicateBox with   *)
(* such a box id.                                                          *)
(***************************************************************************)
C18_MissingIdIsNoop ==
    \A g \in Missing :
        /\ addBox(boxes, nextId, g) = boxes
        /\ \A p \in IdArgs \cup {Null}, i \in (-1)..MaxIndex : moveBox(boxes, g, p, i) = boxes
        /\ \A b \in DOMAIN boxes, i \in (-1)..MaxIndex : moveBox(boxes, b, g, i) = boxes
        /\ removeBox(boxes, g) = boxes
        /\ updateBox(boxes, g, [x |-> 0, y |-> 0]) = boxes
        /\ updateBoxPosition(boxes, g, 0, 0) = boxes
        /\ updateBoxSize(boxes, g, DEFAULT_WIDTH, DEFAULT_HEIGHT) = boxes
        /\ updateBoxSpec(boxes, g, Null) = boxes
        /\ duplicateBox(boxes, g, nextId) = boxes

(***************************************************************************)
(* C19: addBox(parent) creates one new leaf box (empty childIds, null      *)
(* spec, parentId = parent) with a fresh id, appended as the last element  *)
(* of the parent's childIds, whose order is strictly greater than the      *)
(* order of every existing sibling of its group.                           *)
(***************************************************************************)
C19_AddStep(p) ==
    LET new == boxes'[nextId]
    IN  /\ nextId \notin DOMAIN boxes
        /\ DOMAIN boxes' = (DOMAIN boxes) \cup {nextId}
        /\ new.id = nextId
        /\ new.childIds = <<>>
        /\ new.spec = Null
        /\ new.parentId = p
        /\ p \in DOMAIN boxes => boxes'[p].childIds = Append(boxes[p].childIds, nextId)
        /\ \A b \in Siblings(boxes, p) : boxes[b].order < new.order

C19_AddAppendsLast ==
    [][\A p \in IdArgs \cup {Null} : AddBox(p) => C19_AddStep(p)]_vars

(***************************************************************************)
(* C20: duplicateBox(id) on an existing box adds exactly one box with a    *)
(* fresh id, the same parentId, an empty childIds list and, for a root     *)
(* box, x and y offset by 40, appended to the parent's childIds; the       *)
(* original box and all of its descendants are left unchanged and no       *)
(* descendant is copied.                                                   *)
(***************************************************************************)
C20_DuplicateStep(id) ==
    LET original == boxes[id]
        new == boxes'[nextId]
    IN  /\ nextId \notin DOMAIN boxes
        /\ DOMAIN boxes' = (DOMAIN boxes) \cup {nextId}
        /\ new.id = nextId
        /\ new.parentId = original.parentId
        /\ new.childIds = <<>>
        /\ original.parentId = Null =>
               new.x = original.x + 40 /\ new.y = original.y + 40
        /\ original.parentId \in DOMAIN boxes =>
               boxes'[original.parentId] =
                   [boxes[original.parentId] EXCEPT !.childIds = Append(@, nextId)]
        /\ \A c \in Descendants(boxes, id) : boxes'[c] = boxes[c]
        /\ \A c \in DOMAIN boxes : c # original.parentId => boxes'[c] = boxes[c]

MIN_WIDTH == 120
MIN_HEIGHT == 60

Widths == {0, MIN_WIDTH - 1, MIN_WIDTH, MIN_WIDTH + 1}
Heights == {0, MIN_HEIGHT - 1, MIN_HEIGHT, MIN_HEIGHT + 1}
Coords == {-40, 0, 80}

UpdateBoxSize(boxId, width, height) ==
    /\ boxes' = updateBoxSize(boxes, boxId, width, height)
    /\ UNCHANGED <<extVars, uiVars, nextId, projectVars, genVars, wireVars, histVars>>

UpdateBoxPosition(boxId, x, y) ==
    /\ boxes' = updateBoxPosition(boxes, boxId, x, y)
    /\ UNCHANGED <<extVars, uiVars, nextId, projectVars, genVars, wireVars, histVars>>

NextGeometry ==
    \/ \E b \in IdArgs, w \in Widths, h \in Heights : UpdateBoxSize(b, w, h)
    \/ \E b \in IdArgs, x \in Coords, y \in Coords : UpdateBoxPosition(b, x, y)

SpecGeometry == InitGen /\ [][NextGeometry]_vars

(***************************************************************************)
(* C21: updateBoxSize(id, w, h) on an existing box sets width to w, or to  *)
(* 120 when w is less, and height to h, or to 60 when h is less, and       *)
(* changes nothing else; updateBoxPosition(id, x, y) sets x and y to the   *)
(* numbers given and changes nothing else.                                 *)
(***************************************************************************)
C21_SizeOf(id, w, h) ==
    LET old == boxes[id]
        new == updateBoxSize(boxes, id, w, h)[id]
    IN  /\ new.width = (IF w < 120 THEN 120 ELSE w)
        /\ new.height = (IF h < 60 THEN 60 ELSE h)
        /\ \A f \in DOMAIN old \ {"width", "height"} : new[f] = old[f]
        /\ DOMAIN new = DOMAIN old

C21_PositionOf(id, x, y) ==
    LET old == boxes[id]
        new == updateBoxPosition(boxes, id, x, y)[id]
    IN  /\ new.x = x /\ new.y = y
        /\ \A f \in DOMAIN old \ {"x", "y"} : new[f] = old[f]
        /\ DOMAIN new = DOMAIN old

C21_ClampAndFreeWrite ==
    \A id \in DOMAIN boxes :
        /\ \A w \in Widths, h \in Heights :
              /\ C21_SizeOf(id, w, h)
              /\ DOMAIN updateBoxSize(boxes, id, w, h) = DOMAIN boxes
              /\ \A o \in DOMAIN boxes \ {id} : updateBoxSize(boxes, id, w, h)[o] = boxes[o]
        /\ \A x \in Coords, y \in Coords :
              /\ C21_PositionOf(id, x, y)
              /\ DOMAIN updateBoxPosition(boxes, id, x, y) = DOMAIN boxes
              /\ \A o \in DOMAIN boxes \ {id} : updateBoxPosition(boxes, id, x, y)[o] = boxes[o]

\* box 1 after a size call with a width below and a height above the minimum,
\* and a position call with a negative x
C21_Witness ==
    /\ boxes[1].width = 120 /\ boxes[1].height = 61
    /\ boxes[1].x = -40 /\ boxes[1].y = 0
    /\ boxes[2].width = 121 /\ boxes[2].height = 60

(***************************************************************************)
(* Specification of the project: the layout store, the pages and the       *)
(* shared components as the handlers of the toolbar, the page menu, the    *)
(* shared-components list and the boxes of the canvas drive them.  The     *)
(* project that was loaded has two pages; page 1 holds root box 1 with the *)
(* nested box 2, an instance of shared component 1.                        *)
(***************************************************************************)
removePage(ps, pageId) == SelectSeq(ps, LAMBDA p : p.id # pageId)

removeSharedComponent(scs, componentId) == Del(scs, {componentId})

addInstanceToSharedComponent(scs, componentId, boxId) ==
    IF componentId \notin DOMAIN scs THEN scs
    ELSE IF boxId \in SeqSet(scs[componentId].instanceIds) THEN scs
    ELSE [scs EXCEPT ![componentId].instanceIds = Append(@, boxId)]

\* removeInstanceFromSharedComponent leaving the list as it is
removeInstanceFromSharedComponent_keeps(scs, componentId, boxId) == scs

removeInstanceFromSharedComponent(scs, componentId, boxId) ==
    IF componentId \notin DOMAIN scs THEN scs
    ELSE [scs EXCEPT ![componentId].instanceIds = Without(@, boxId)]

\* component.spec of the shared component: no handler changes it
ComponentSpec(componentId) == 10 + componentId

PageIds == {pages[i].id : i \in 1..Len(pages)}
PageOf(pageId) == (SelectSeq(pages, LAMBDA p : p.id = pageId))[1]

InitProject ==
    /\ boxes = [addBox(addBox(EmptyMap, 1, Null), 2, 1) EXCEPT
                   ![2].sharedComponentId = 1, ![2].spec = ComponentSpec(1)]
    /\ nextId = 3
    /\ pages = <<[id |-> defaultPageId, boxIds |-> <<1>>], [id |-> 2, boxIds |-> <<>>]>>
    /\ sharedComponents = (1 :> [id |-> 1, latestCode |-> Null, instanceIds |-> <<2>>])
    /\ activePageId = defaultPageId
    /\ context = defaultContext
    /\ results = EmptyMap
    /\ generating = EmptyMap
    /\ streamBuffers = EmptyMap
    /\ requestBoxMap = EmptyMap
    /\ lastPrompt = NullPrompt
    /\ nextVersion = 1
    /\ requestCounter = 0
    /\ host = EmptyMap
    /\ inbox = <<>>
    /\ log = EmptyMap
    /\ completeCalls = EmptyMap
    /\ discarded = "none"
    /\ copyOf = EmptyMap
    /\ ExtensionIdle

\* SharedComponentsList.handleInsertInstance
HandleInsertInstance(componentId) ==
    /\ componentId \in DOMAIN sharedComponents
    /\ nextId <= MaxBoxes
    /\ LET added == addBox(boxes, nextId, Null)
           linked == updateBox(added, nextId, [sharedComponentId |-> componentId])
       IN  boxes' = updateBoxSpec(linked, nextId, ComponentSpec(componentId))
    /\ pages' = addBoxToPage(pages, activePageId, nextId)
    /\ sharedComponents' = addInstanceToSharedComponent(sharedComponents, componentId, nextId)
    /\ nextId' = nextId + 1
    /\ UNCHANGED <<extVars, uiVars, genVars, wireVars, histVars>>

\* PageMenu.handleSelectPage
HandleSelectPage(pageId) ==
    /\ pageId \in PageIds
    /\ activePageId' = pageId
    /\ UNCHANGED context
    /\ UNCHANGED <<extVars, layoutVars, projectVars, genVars, wireVars, histVars>>

\* PageMenu.handleConfirmDelete.  collectIds keeps no visited set either: on
\* a childIds cycle the handler ends in a stack overflow after it has
\* switched the active page
PageConfirmDelete(pageId) ==
    /\ pageId \in PageIds
    /\ Len(pages) > 1
    /\ LET boxIdsToRemove == PageOf(pageId).boxIds
           remaining == removePage(pages, pageId)
           RECURSIVE collectIds(_, _), collectAll(_, _)
           collectIds(id, n) ==
               IF n = 0 \/ id \notin DOMAIN boxes THEN <<>>
               ELSE <<id>> \o collectAll(boxes[id].childIds, n - 1)
           collectAll(ids, n) ==
               IF ids = <<>> THEN <<>>
               ELSE collectIds(Head(ids), n) \o collectAll(Tail(ids), n)
           allIdsToRemove == collectAll(boxIdsToRemove, Cardinality(DOMAIN boxes) + 1)
           RECURSIVE unlinkAll(_, _)
           unlinkAll(scs, ids) ==
               IF ids = <<>> THEN scs
               ELSE LET b == boxes[Head(ids)]
                    IN  unlinkAll(IF b.sharedComponentId # Null
                                  THEN removeInstanceFromSharedComponent(
                                           scs, b.sharedComponentId, Head(ids))
                                  ELSE scs,
                                  Tail(ids))
           RECURSIVE removeAll(_, _)
           removeAll(bs, ids) ==
               IF ids = <<>> THEN bs ELSE removeAll(removeBox(bs, Head(ids)), Tail(ids))
           RECURSIVE failAll(_, _)
           failAll(s, ids) ==
               IF ids = <<>> THEN s
               ELSE failAll(IF Head(ids) \in DOMAIN results
                            THEN failGeneration(s, Head(ids)) ELSE s,
                            Tail(ids))
       IN  /\ activePageId' = IF pageId = activePageId THEN remaining[1].id ELSE activePageId
           /\ IF \E i \in 1..Len(boxIdsToRemove) :
                     boxIdsToRemove[i] \in DOMAIN boxes /\ Overflows(boxes, boxIdsToRemove[i])
              THEN UNCHANGED <<boxes, projectVars, genVars>>
              ELSE /\ sharedComponents' = unlinkAll(sharedComponents, allIdsToRemove)
                   /\ boxes' = removeAll(boxes, boxIdsToRemove)
                   /\ SetGen(failAll(Gen, boxIdsToRemove))
                   /\ pages' = remaining
                   /\ UNCHANGED nextVersion
    /\ UNCHANGED <<extVars, context, nextId, wireVars, histVars>>

\* SharedComponentsList.handleConfirmDelete
ComponentConfirmDelete(componentId) ==
    /\ componentId \in DOMAIN sharedComponents
    /\ LET RECURSIVE unlinkBoxes(_, _)
           unlinkBoxes(bs, ids) ==
               IF ids = <<>> THEN bs
               ELSE unlinkBoxes(updateBox(bs, Head(ids), [sharedComponentId |-> Null]),
                                Tail(ids))
       IN  boxes' = unlinkBoxes(boxes, sharedComponents[componentId].instanceIds)
    /\ sharedComponents' = removeSharedComponent(sharedComponents, componentId)
    /\ UNCHANGED <<extVars, nextId, pages, uiVars, genVars, wireVars, histVars>>

NextProject ==
    \/ HandleAddBox(0, 0)
    \/ \E b \in BoxIds : HandleAddChild(b)
    \/ \E c \in DOMAIN sharedComponents : HandleInsertInstance(c)
    \/ \E b \in BoxIds : HandleDuplicateTop(b)
    \/ \E b \in BoxIds : HandleDuplicateNested(b)
    \/ \E b \in BoxIds : HandleDeleteTop(b)
    \/ \E b \in BoxIds : HandleDeleteNested(b)
    \/ \E a \in BoxIds, p \in BoxIds : HandleDropOnContainer(a, p)
    \/ \E a \in BoxIds, o \in BoxIds : HandleDropOnBox(a, o)
    \/ \E p \in PageIds : HandleSelectPage(p)
    \/ \E p \in PageIds : PageConfirmDelete(p)
    \/ \E c \in DOMAIN sharedComponents : ComponentConfirmDelete(c)

SpecProject == InitProject /\ [][NextProject]_vars

(***************************************************************************)
(* C22: in every state reachable through insert shared instance, duplicate *)
(* box, delete box, delete page and delete shared component, every id in a *)
(* component's instanceIds names an existing box whose sharedComponentId is *)
(* that component, and every box with a sharedComponentId names an         *)
(* existing component whose instanceIds contains the box.                  *)
(***************************************************************************)
C22_InstancesConsistent ==
    /\ \A c \in DOMAIN sharedComponents :
           \A b \in SeqSet(sharedComponents[c].instanceIds) :
               b \in DOMAIN boxes /\ boxes[b].sharedComponentId = c
    /\ \A b \in DOMAIN boxes :
           boxes[b].sharedComponentId # Null =>
               /\ boxes[b].sharedComponentId \in DOMAIN sharedComponents
               /\ b \in SeqSet(sharedComponents[boxes[b].sharedComponentId].instanceIds)

(***************************************************************************)
(* C23: after the delete action on a box, root or nested, no shared        *)
(* component's instanceIds contains the deleted box or any of the          *)
(* descendants removed with it.                                            *)
(***************************************************************************)
C23_DeleteStep(id) ==
    LET removed == Descendants(boxes, id) \ DOMAIN boxes'
    IN  \A c \in DOMAIN sharedComponents' :
            SeqSet(sharedComponents'[c].instanceIds) \cap removed = {}

C23_DeleteDetachesInstances ==
    [][\A id \in BoxIds :
          (HandleDeleteTop(id) \/ HandleDeleteNested(id)) => C23_DeleteStep(id)]_vars

(***************************************************************************)
(* C24: after the delete action on shared component c, c is not in         *)
(* sharedComponents and no box of the layout store has                     *)
(* sharedComponentId = c.                                                  *)
(***************************************************************************)
C24_ComponentDeleteUnlinksAll ==
    [][\A c \in DOMAIN sharedComponents :
          ComponentConfirmDelete(c) =>
              /\ c \notin DOMAIN sharedComponents'
              /\ \A b \in DOMAIN boxes' : boxes'[b].sharedComponentId # c]_vars

(***************************************************************************)
(* C25: after a page is deleted, none of its root boxes and none of their  *)
(* descendants is in the layout store, no shared component's instanceIds   *)
(* contains any of them, and the boxes and the box lists of all other      *)
(* pages are as before.                                                    *)
(***************************************************************************)
Subtrees(ids) == UNION {Descendants(boxes, ids[i]) : i \in 1..Len(ids)}

C25_PageStep(pageId) ==
    LET gone == Subtrees(PageOf(pageId).boxIds)
    IN  /\ \A i \in 1..Len(pages') : pages'[i].id # pageId
        /\ gone \cap DOMAIN boxes' = {}
        /\ \A c \in DOMAIN sharedComponents' :
               SeqSet(sharedComponents'[c].instanceIds) \cap gone = {}
        /\ \A i \in 1..Len(pages) :
               pages[i].id # pageId =>
                   /\ \E j \in 1..Len(pages') : pages'[j] = pages[i]
                   /\ \A b \in Subtrees(pages[i].boxIds) :
                          b \in DOMAIN boxes' /\ boxes'[b] = boxes[b]

C25_PageDeleteCascades ==
    [][\A p \in PageIds : PageConfirmDelete(p) => C25_PageStep(p)]_vars

\* page 1, whose root box held an instance of component 1, was deleted while
\* page 2 held another instance
C25_Witness ==
    /\ pages = <<[id |-> 2, boxIds |-> <<3>>]>>
    /\ DOMAIN boxes = {3}
    /\ boxes[3].sharedComponentId = 1
    /\ sharedComponents[1].instanceIds = <<3>>

(***************************************************************************)
(* Provider adapters.  A response body is a sequence of bytes, a string a  *)
(* sequence of characters.  "d" stands for the prefix 'data: ', "D" for    *)
(* '[DONE]', "e" for a line that is no data line ('event: ...'); "C3" and  *)
(* "A9" are the two bytes of the character "E" (e acute).  Between the     *)
(* braces of a JSON object, "T", "S" and "M" stand for the types           *)
(* content_block_delta, message_start and message_delta, "i" and "o" for a *)
(* count of input (prompt) and of output (completion) tokens, and every    *)
(* other character is text of the delta.  "F" stands for a code fence.     *)
(***************************************************************************)
MaxLines == 2
MaxParts == 2

Conditions == {"auth", "quota", "safety", "model"}

\* TextDecoder.decode(value, {stream: true}): the characters of pending \o bytes,
\* and the bytes of an incomplete character, kept for the next call
RECURSIVE decode(_)
decode(bytes) ==
    IF bytes = <<>> THEN [chars |-> <<>>, pending |-> <<>>]
    ELSE IF Head(bytes) # "C3"
         THEN LET rest == decode(Tail(bytes))
              IN  [rest EXCEPT !.chars = <<Head(bytes)>> \o @]
    ELSE IF Len(bytes) = 1 THEN [chars |-> <<>>, pending |-> bytes]
    ELSE IF bytes[2] = "A9"
         THEN LET rest == decode(Tail(Tail(bytes)))
              IN  [rest EXCEPT !.chars = <<"E">> \o @]
    ELSE LET rest == decode(Tail(bytes))
         IN  [rest EXCEPT !.chars = <<"?">> \o @]

\* a split that loses the incomplete last line instead of keeping it
split_dropsPartial(buffer) ==
    LET RECURSIVE lines(_)
        lines(buf) ==
            IF "\n" \notin SeqSet(buf) THEN <<>>
            ELSE LET n == CHOOSE i \in 1..Len(buf) :
                              buf[i] = "\n" /\ \A j \in 1..(i - 1) : buf[j] # "\n"
                 IN  <<SubSeq(buf, 1, n - 1)>> \o lines(SubSeq(buf, n + 1, Len(buf)))
    IN  [lines |-> lines(buffer), last |-> <<>>]

\* buffer.split('\n') with the last element popped: the complete lines, and the
\* incomplete last line
RECURSIVE split(_)
split(buffer) ==
    IF "\n" \notin SeqSet(buffer) THEN [lines |-> <<>>, last |-> buffer]
    ELSE LET n == CHOOSE i \in 1..Len(buffer) :
                      buffer[i] = "\n" /\ \A j \in 1..(i - 1) : buffer[j] # "\n"
             rest == split(SubSeq(buffer, n + 1, Len(buffer)))
         IN  [rest EXCEPT !.lines = <<SubSeq(buffer, 1, n - 1)>> \o @]

\* String.prototype.trim
trim(str) ==
    LET white == {" ", "\r", "\n"}
        inked == {i \in 1..Len(str) : str[i] \notin white}
    IN  IF inked = {} THEN <<>>
        ELSE SubSeq(str, CHOOSE i \in inked : \A j \in inked : i <= j,
                         CHOOSE i \in inked : \A j \in inked : i >= j)

\* JSON.parse of the payload of a data line: it throws unless the payload is
\* one object
parse(payload) ==
    LET n == Len(payload)
        inner == SubSeq(payload, 2, n - 1)
        fields == SeqSet(inner)
        types == SelectSeq(inner, LAMBDA c : c \in {"T", "S", "M"})
    IN  IF n < 2 \/ payload[1] # "{" \/ payload[n] # "}"
           \/ fields \cap {"{", "}", "d", "D", "e", "\r"} # {}
        THEN [valid |-> FALSE]
        ELSE [valid |-> TRUE,
              type |-> IF types = <<>> THEN "none" ELSE Head(types),
              text |-> SelectSeq(inner, LAMBDA c : c \notin {"T", "S", "M", "i", "o"}),
              input |-> IF "i" \in fields THEN <<7>> ELSE <<>>,
              output |-> IF "o" \in fields THEN <<9>> ELSE <<>>]

\* _stripCodeFences: code.trim(), and the body of
\* /^```(?:\w+)?\s*\n([\s\S]*?)\n```\s*$/ when the trimmed code matches it
stripCodeFences(code) ==
    LET trimmed == trim(code)
        n == Len(trimmed)
        \* ends of the header line: "\n" after the fence, word characters and
        \* white space, before the "\n" of the closing fence
        headers == {h \in 2..(n - 2) :
                       /\ trimmed[h] = "\n"
                       /\ \E w \in 1..(h - 1) :
                             /\ \A j \in 2..w : trimmed[j] \in {"a"}
                             /\ \A j \in (w + 1)..(h - 1) : trimmed[j] \in {" ", "\r", "\n"}}
    IN  IF n >= 4 /\ trimmed[1] = "F" /\ trimmed[n] = "F" /\ trimmed[n - 1] = "\n"
           /\ headers # {}
        THEN SubSeq(trimmed, (CHOOSE h \in headers : \A g \in headers : g <= h) + 1, n - 2)
        ELSE trimmed

\* the lines a vendor streams, each with its line terminator: text deltas (one
\* with a two-byte character and CR LF), a record cut short, a record without
\* text, records with token counts, the end marker, and lines that are no
\* data lines
Lines(provider) ==
    IF provider = "openai"
    THEN {<<"d", "{", "a", "}", "\n">>, <<"d", "{", "C3", "A9", "}", "\r", "\n">>,
          <<"d", "{", "a", "\n">>, <<"d", "{", "}", "\n">>,
          <<"d", "{", "i", "o", "}", "\n">>, <<"d", "D", "\n">>, <<"\n">>}
    ELSE {<<"d", "{", "T", "a", "}", "\n">>, <<"d", "{", "T", "C3", "A9", "}", "\r", "\n">>,
          <<"d", "{", "T", "a", "\n">>, <<"d", "{", "T", "}", "\n">>,
          <<"d", "{", "S", "i", "}", "\n">>, <<"d", "{", "M", "o", "}", "\n">>,
          <<"e", "\n">>}

\* the response bodies of at most MaxLines lines
Streams(provider) ==
    LET RECURSIVE flatten(_)
        flatten(ls) == IF ls = <<>> THEN <<>> ELSE Head(ls) \o flatten(Tail(ls))
    IN  {flatten(ls) : ls \in UNION {[1..n -> Lines(provider)] : n \in 0..MaxLines}}

\* what the vendor does with the request.  status: "ok" or the condition it
\* fails with; errorBody: whether the body of a failure is JSON with a
\* message; bytes: the body of a streamed response; sdk: how the SDK call of the
\* Gemini adapter shows a failure (streamText rejects, textStream throws, or
\* textStream just ends); parts: what textStream yields; usage: the token
\* counts the SDK reports; fallback: what generateText gives
Scripts(provider) ==
    IF provider # "gemini"
    THEN {[status |-> "ok", errorBody |-> "none", bytes |-> s, sdk |-> "none",
           parts |-> <<>>, usage |-> {}, fallback |-> "none"] : s \in Streams(provider)}
         \cup
         {[status |-> c, errorBody |-> b, bytes |-> <<>>, sdk |-> "none",
           parts |-> <<>>, usage |-> {}, fallback |-> "none"] :
              c \in Conditions, b \in {"json", "text"}}
    ELSE {[status |-> "ok", errorBody |-> "none", bytes |-> <<>>, sdk |-> k,
           parts |-> p, usage |-> u, fallback |-> f] :
              k \in {"none", "fails"},
              p \in UNION {[1..n -> {<<"a">>, <<" ">>}] : n \in 0..MaxParts},
              u \in SUBSET {"i", "o"}, f \in {"text", "empty"}}
         \cup
         {[status |-> c, errorBody |-> "none", bytes |-> <<>>, sdk |-> k,
           parts |-> <<>>, usage |-> {}, fallback |-> "error"] :
              c \in Conditions, k \in {"rejects", "fails", "silent"}}

\* panel.postMessage of handleGenerate: generateChunk {text}, generateComplete
\* {code, usage}, generateError {message}
Post(type, text, code, usage, error) ==
    [type |-> type, text |-> text, code |-> code, usage |-> usage, error |-> error]

\* the body of the loop over the lines of _handleStream; st holds
\* fullContent, usage and the onChunk calls made
handleLine(provider, st, line) ==
    LET trimmed == trim(line)
        payload == Tail(trimmed)
        parsed == parse(payload)
        reported == parsed.input # <<>> \/ parsed.output # <<>>
        withText == [st EXCEPT !.fullContent = @ \o parsed.text,
                               !.chunks = Append(@, parsed.text)]
    IN  IF trimmed = <<>> \/ Head(trimmed) # "d" THEN st
        ELSE IF payload = <<"D">> THEN st
        ELSE IF ~parsed.valid THEN st
        ELSE IF provider = "openai"
        THEN LET s1 == IF parsed.text # <<>> THEN withText ELSE st
             IN  IF reported
                 THEN [s1 EXCEPT !.usage = <<[promptTokens |-> parsed.input,
                                              completionTokens |-> parsed.output]>>]
                 ELSE s1
        ELSE LET s1 == IF parsed.type = "T" /\ parsed.text # <<>> THEN withText ELSE st
                 s2 == IF parsed.type = "S" /\ reported
                       THEN [s1 EXCEPT !.usage = <<[promptTokens |-> parsed.input,
                                                    completionTokens |-> <<0>>]>>]
                       ELSE s1
             IN  IF parsed.type = "M" /\ reported
                 THEN [s2 EXCEPT !.usage =
                          <<[promptTokens |-> IF s2.usage # <<>> /\ s2.usage[1].promptTokens # <<>>
                                              THEN s2.usage[1].promptTokens ELSE <<0>>,
                             completionTokens |-> parsed.output]>>]
                 ELSE s2

\* AIService.generate up to the call of the provider
generate_callsFirst(cfg) == "provider"

generate(cfg) ==
    IF cfg.provider \notin Providers THEN "unknownProvider"
    ELSE IF ~cfg.hasKey THEN "noKey"
    ELSE "provider"

\* the message the catch of GeminiProvider.generate throws for an error whose
\* message holds the words
classify(words) ==
    IF words \cap {"api key", "authentication", "401"} # {} THEN "auth"
    ELSE IF words \cap {"quota", "rate limit", "429"} # {} THEN "quota"
    ELSE IF words \cap {"safety", "blocked"} # {} THEN "safety"
    ELSE IF words \cap {"model", "not found", "404"} # {} THEN "model"
    ELSE "other"

\* words of the message the vendor gives for a failure
VendorWords(condition) ==
    CASE condition = "auth" -> {"api key"}
      [] condition = "quota" -> {"quota", "model"}
      [] condition = "safety" -> {"blocked"}
      [] OTHER -> {"model", "not found"}

\* usage of a result of the SDK: both counts, or undefined
sdkUsage(reported) ==
    IF {"i", "o"} \subseteq reported
    THEN <<[promptTokens |-> <<7>>, completionTokens |-> <<9>>]>>
    ELSE <<>>

(***************************************************************************)
(* Specification of the extension host: handleGenerate serving one         *)
(* generate message, for every configured provider, with and without a     *)
(* stored API key, against every script of the vendor; the body of a       *)
(* streamed response arrives in reads of any sizes.                        *)
(***************************************************************************)
InitExtension ==
    /\ boxes = EmptyMap
    /\ nextId = 1
    /\ pages = <<[id |-> defaultPageId, boxIds |-> <<>>]>>
    /\ sharedComponents = EmptyMap
    /\ activePageId = defaultPageId
    /\ context = defaultContext
    /\ results = EmptyMap
    /\ generating = EmptyMap
    /\ streamBuffers = EmptyMap
    /\ requestBoxMap = EmptyMap
    /\ lastPrompt = NullPrompt
    /\ nextVersion = 1
    /\ requestCounter = 0
    /\ host = EmptyMap
    /\ inbox = <<>>
    /\ log = EmptyMap
    /\ completeCalls = EmptyMap
    /\ discarded = "none"
    /\ copyOf = EmptyMap
    /\ config \in [provider : Providers, hasKey : BOOLEAN]
    /\ vendor \in Scripts(config.provider)
    /\ proc = IdleProc
    /\ posted = <<>>
    /\ calls = NoCalls
    /\ ConfigIdle

Webview == <<layoutVars, projectVars, uiVars, genVars, wireVars, histVars>>

\* handleGenerate, AIService.generate and the provider's generate up to its
\* network call
ServiceGenerate ==
    /\ proc.pc = "idle"
    /\ IF generate(config) # "provider"
       THEN /\ posted' = Append(posted, Post("generateError", <<>>, <<>>, <<>>, generate(config)))
            /\ proc' = [proc EXCEPT !.pc = "done"]
            /\ UNCHANGED calls
       ELSE /\ calls' = [calls EXCEPT !.stream = @ + 1]
            /\ IF config.provider = "gemini" /\ vendor.sdk = "rejects"
               THEN /\ posted' = Append(posted, Post("generateError", <<>>, <<>>, <<>>,
                                                     classify(VendorWords(vendor.status))))
                    /\ proc' = [proc EXCEPT !.pc = "done"]
               ELSE /\ proc' = [proc EXCEPT
                                   !.pc = IF config.provider = "gemini"
                                          THEN "textStream" ELSE "fetch"]
                    /\ UNCHANGED posted
    /\ UNCHANGED <<Webview, cfgVars, config, vendor>>

\* OpenAIProvider.generate, AnthropicProvider.generate: the response of fetch
FetchResponds ==
    /\ proc.pc = "fetch"
    /\ IF vendor.status # "ok"
       THEN /\ posted' = Append(posted, Post("generateError", <<>>, <<>>, <<>>,
                                 IF vendor.errorBody = "json" THEN "vendor" ELSE "status"))
            /\ proc' = [proc EXCEPT !.pc = "done"]
       ELSE /\ proc' = [proc EXCEPT !.pc = "reading"]
            /\ UNCHANGED posted
    /\ UNCHANGED <<Webview, cfgVars, config, vendor, calls>>

\* _handleStream: one turn of the loop, reader.read() giving the next size bytes
ReaderRead(size) ==
    /\ proc.pc = "reading"
    /\ proc.pos + size <= Len(vendor.bytes)
    /\ LET value == SubSeq(vendor.bytes, proc.pos + 1, proc.pos + size)
           decoded == decode(proc.pending \o value)
           parts == split(proc.buffer \o decoded.chars)
           RECURSIVE handleLines(_, _)
           handleLines(st, lines) ==
               IF lines = <<>> THEN st
               ELSE handleLines(handleLine(config.provider, st, Head(lines)), Tail(lines))
           st == handleLines([fullContent |-> proc.fullContent, usage |-> proc.usage,
                              chunks |-> <<>>], parts.lines)
       IN  /\ proc' = [proc EXCEPT
                          !.pos = @ + size, !.pending = decoded.pending,
                          !.buffer = parts.last, !.fullContent = st.fullContent,
                          !.usage = st.usage,
                          !.cuts = @ \cup (IF decoded.pending # <<>> THEN {"character"} ELSE {})
                                     \cup (IF parts.last # <<>> THEN {"line"} ELSE {})]
           /\ posted' = posted \o [i \in 1..Len(st.chunks) |->
                                      Post("generateChunk", st.chunks[i], <<>>, <<>>, "none")]
    /\ UNCHANGED <<Webview, cfgVars, config, vendor, calls>>

\* _handleStream: reader.read() gives done
ReaderDone ==
    /\ proc.pc = "reading"
    /\ proc.pos = Len(vendor.bytes)
    /\ posted' = Append(posted, Post("generateComplete", <<>>,
                                     stripCodeFences(proc.fullContent), proc.usage, "none"))
    /\ proc' = [proc EXCEPT !.pc = "done"]
    /\ UNCHANGED <<Webview, cfgVars, config, vendor, calls>>

\* GeminiProvider.generate: one turn of the loop over result.textStream
TextStreamNext ==
    /\ proc.pc = "textStream"
    /\ proc.pos < Len(vendor.parts)
    /\ LET textPart == vendor.parts[proc.pos + 1]
       IN  /\ proc' = [proc EXCEPT !.pos = @ + 1, !.fullContent = @ \o textPart]
           /\ posted' = Append(posted, Post("generateChunk", textPart, <<>>, <<>>, "none"))
    /\ UNCHANGED <<Webview, cfgVars, config, vendor, calls>>

\* GeminiProvider.generate: result.textStream ends or throws
TextStreamEnd ==
    /\ proc.pc = "textStream"
    /\ proc.pos = Len(vendor.parts)
    /\ IF vendor.sdk = "fails" \/ trim(proc.fullContent) = <<>>
       THEN /\ calls' = [calls EXCEPT !.plain = @ + 1]
            /\ proc' = [proc EXCEPT !.pc = "generateText"]
            /\ UNCHANGED posted
       ELSE /\ posted' = Append(posted, Post("generateComplete", <<>>,
                                 stripCodeFences(proc.fullContent), sdkUsage(vendor.usage), "none"))
            /\ proc' = [proc EXCEPT !.pc = "done"]
            /\ UNCHANGED calls
    /\ UNCHANGED <<Webview, cfgVars, config, vendor>>

\* GeminiProvider._generateNonStreaming: generateText answers.  The promise
\* of the call is returned without await, so an error of it passes the catch
\* blocks of generate as it is
GenerateTextResponds ==
    /\ proc.pc = "generateText"
    /\ posted' = Append(posted,
           CASE vendor.fallback = "text" ->
                    Post("generateComplete", <<>>, stripCodeFences(<<"a", "\n">>),
                         sdkUsage(vendor.usage), "none")
             [] vendor.fallback = "empty" -> Post("generateError", <<>>, <<>>, <<>>, "empty")
             [] OTHER -> Post("generateError", <<>>, <<>>, <<>>, "vendor"))
    /\ proc' = [proc EXCEPT !.pc = "done"]
    /\ UNCHANGED <<Webview, cfgVars, config, vendor, calls>>

NextExtension ==
    \/ ServiceGenerate
    \/ FetchResponds
    \/ \E size \in 1..(MaxLines * 7) : ReaderRead(size)
    \/ ReaderDone
    \/ TextStreamNext
    \/ TextStreamEnd
    \/ GenerateTextResponds

SpecExtension == InitExtension /\ [][NextExtension]_vars

\* the texts of the generateChunk messages posted, in order
ChunkTexts == 
    LET chunks == SelectSeq(posted, LAMBDA m : m.type = "generateChunk")
    IN  [i \in 1..Len(chunks) |-> chunks[i].text]

\* the records of a body: its lines, as the whole body gives them
Records(bytes) == split(decode(bytes).chars).lines

\* the parsed object of a record that is valid for the provider, or none
ValidRecord(provider, line) ==
    LET trimmed == trim(line)
    IN  IF trimmed = <<>> \/ Head(trimmed) # "d" THEN <<>>
        ELSE IF ~parse(Tail(trimmed)).valid THEN <<>>
        ELSE <<parse(Tail(trimmed))>>

\* the non-empty text deltas of the valid records of a body, in order
Deltas(provider, bytes) ==
    LET texts == [i \in 1..Len(Records(bytes)) |->
                     LET r == ValidRecord(provider, Records(bytes)[i])
                     IN  IF r # <<>> /\ (provider = "openai" \/ r[1].type = "T")
                         THEN r[1].text ELSE <<>>]
    IN  SelectSeq(texts, LAMBDA x : x # <<>>)

\* the token counts the vendor reports in the response
ReportedCounts ==
    IF config.provider = "gemini" THEN vendor.usage
    ELSE UNION {IF ValidRecord(config.provider, Records(vendor.bytes)[i]) = <<>> THEN {}
                ELSE LET r == ValidRecord(config.provider, Records(vendor.bytes)[i])[1]
                     IN  (IF r.input # <<>> THEN {"i"} ELSE {}) \cup
                         (IF r.output # <<>> THEN {"o"} ELSE {}) :
                i \in 1..Len(Records(vendor.bytes))}

Done == proc.pc = "done"
LastPosted == posted[Len(posted)]

(***************************************************************************)
(* C26: when no API key is stored for the configured provider, the         *)
(* generate call fails before the provider makes any network call, and the *)
(* host answers with exactly one generateError and no generateChunk.       *)
(***************************************************************************)
C26_NoKeyFailsBeforeNetwork ==
    ~config.hasKey =>
        /\ calls = NoCalls
        /\ proc.pc \in {"idle", "done"}
        /\ Done => Len(posted) = 1 /\ posted[1].type = "generateError"
        /\ ~Done => posted = <<>>

C26_Witness ==
    /\ ~config.hasKey /\ config.provider = "anthropic" /\ vendor.bytes # <<>>
    /\ Done /\ posted = <<Post("generateError", <<>>, <<>>, <<>>, "noKey")>>

(***************************************************************************)
(* C27: for every provider, a streaming call whose stream gives no text    *)
(* chunk and then closes makes exactly one plain (non-streaming) call, and *)
(* only then returns the code of that call or raises the empty-response    *)
(* error; it never returns an empty code without that call, and never      *)
(* makes a second one.                                                     *)
(***************************************************************************)
C27_EmptyStreamFallsBackOnce ==
    /\ calls.plain <= 1
    /\ (Done /\ config.hasKey /\ vendor.status = "ok" /\ vendor.sdk = "none"
             /\ ChunkTexts = <<>>) =>
          /\ calls.plain = 1
          /\ \/ LastPosted.type = "generateComplete" /\ LastPosted.code # <<>>
             \/ LastPosted.type = "generateError" /\ LastPosted.error = "empty"

C29_UsageOnlyAsReported ==
    \A i \in 1..Len(posted) :
        posted[i].type = "generateComplete" =>
            /\ ReportedCounts = {} => posted[i].usage = <<>>
            /\ posted[i].usage # <<>> =>
                  /\ posted[i].usage[1].promptTokens # <<>> => "i" \in ReportedCounts
                  /\ posted[i].usage[1].completionTokens # <<>> => "o" \in ReportedCounts

(***************************************************************************)
(* C30: for every provider, a failure caused by an authentication, quota,  *)
(* content-safety or unknown-model condition is raised as the error of the *)
(* class of that condition, each condition with its own class, never as    *)
(* the vendor's message.                                                   *)
(***************************************************************************)
C30_FailuresAreClassified ==
    \A i \in 1..Len(posted) :
        (posted[i].type = "generateError" /\ config.hasKey /\ vendor.status \in Conditions) =>
            posted[i].error = vendor.status


(***************************************************************************)
(* AI configuration of the extension host: AIService.getConfig and         *)
(* setConfig over globalState and SecretStorage, handleSetAIConfig, and    *)
(* the getConfig of AIService.generate.  An API key is <<k>>, null is <<>>. *)
(***************************************************************************)
MaxKeys == 1
ApiKeys == {<<k>> : k \in 1..MaxKeys}

\* the AIConfig values of a setAIConfig message; temperature in tenths
AIConfigs ==
    [provider : Providers, model : {"gpt-4o", "o3"}, temperature : {0, 7},
     maxTokens : {4096}, apiKey : ApiKeys \cup {<<>>}]

\* AIService.getConfig over the two stores
getConfig(gs, sec) ==
    LET providerId == IF gs = <<>> THEN "openai" ELSE gs[1].provider
    IN  [provider |-> providerId,
         model |-> IF gs = <<>> THEN "gpt-4o" ELSE gs[1].model,
         apiKey |-> sec[providerId],
         temperature |-> IF gs = <<>> THEN 7 ELSE gs[1].temperature,
         maxTokens |-> IF gs = <<>> THEN 4096 ELSE gs[1].maxTokens]

\* AIService.setConfig: the record written to globalState
setConfigState(c) ==
    <<[provider |-> c.provider, model |-> c.model, temperature |-> c.temperature,
       maxTokens |-> c.maxTokens]>>

\* a setConfig that stores the key under the entry of the configured provider
setConfigSecrets_current(gs, sec, c) ==
    IF c.apiKey # <<>> THEN [sec EXCEPT ![getConfig(gs, sec).provider] = c.apiKey] ELSE sec

\* AIService.setConfig: SecretStorage after the key, if given, is stored
setConfigSecrets(gs, sec, c) ==
    IF c.apiKey # <<>> THEN [sec EXCEPT ![c.provider] = c.apiKey] ELSE sec

InitConfig ==
    /\ boxes = EmptyMap
    /\ nextId = 1
    /\ pages = <<[id |-> defaultPageId, boxIds |-> <<>>]>>
    /\ sharedComponents = EmptyMap
    /\ activePageId = defaultPageId
    /\ context = defaultContext
    /\ results = EmptyMap
    /\ generating = EmptyMap
    /\ streamBuffers = EmptyMap
    /\ requestBoxMap = EmptyMap
    /\ lastPrompt = NullPrompt
    /\ nextVersion = 1
    /\ requestCounter = 0
    /\ host = EmptyMap
    /\ inbox = <<>>
    /\ log = EmptyMap
    /\ completeCalls = EmptyMap
    /\ discarded = "none"
    /\ copyOf = EmptyMap
    /\ ExtensionIdle

Generation == <<vendor, posted, calls>>

\* handleSetAIConfig up to the first await of setConfig
HandleSetAIConfig(c) ==
    /\ setting.pc = "idle"
    /\ setting' = [pc |-> IF c.apiKey # <<>> THEN "store" ELSE "update", c |-> c]
    /\ echoed' = <<>>
    /\ UNCHANGED <<Webview, Generation, config, proc, globalState, secrets, passed>>

\* setConfig: this._secrets.store resolves
SecretsStore ==
    /\ setting.pc = "store"
    /\ secrets' = setConfigSecrets(globalState, secrets, setting.c)
    /\ setting' = [setting EXCEPT !.pc = "update"]
    /\ UNCHANGED <<Webview, Generation, config, proc, globalState, echoed, passed>>

\* setConfig: this._globalState.update resolves
GlobalStateUpdate ==
    /\ setting.pc = "update"
    /\ globalState' = setConfigState(setting.c)
    /\ setting' = [setting EXCEPT !.pc = "get"]
    /\ UNCHANGED <<Webview, Generation, config, proc, secrets, echoed, passed>>

\* handleSetAIConfig: getConfig resolves and the aiConfig message is posted
ConfigEchoed ==
    /\ setting.pc = "get"
    /\ echoed' = <<getConfig(globalState, secrets)>>
    /\ setting' = [pc |-> "idle"]
    /\ UNCHANGED <<Webview, Generation, config, proc, globalState, secrets, passed>>

\* AIService.generate: getConfig reads globalState and asks for the secret
GenerateReadsConfig ==
    /\ proc.pc = "idle"
    /\ config' = [provider |-> getConfig(globalState, secrets).provider, hasKey |-> FALSE]
    /\ proc' = [proc EXCEPT !.pc = "getConfig"]
    /\ passed' = <<>>
    /\ UNCHANGED <<Webview, Generation, globalState, secrets, setting, echoed>>

\* AIService.generate: this._secrets.get resolves; the key check, and
\* provider.generate(resolvedRequest, apiKey, onChunk)
GenerateCallsProvider ==
    /\ proc.pc = "getConfig"
    /\ LET apiKey == secrets[config.provider]
           cfg == [config EXCEPT !.hasKey = apiKey # <<>>]
       IN  /\ config' = cfg
           /\ passed' = IF generate(cfg) = "provider"
                        THEN <<[provider |-> cfg.provider, apiKey |-> apiKey]>> ELSE <<>>
    /\ proc' = [proc EXCEPT !.pc = "idle"]
    /\ UNCHANGED <<Webview, Generation, globalState, secrets, setting, echoed>>

NextConfig ==
    \/ \E c \in AIConfigs : HandleSetAIConfig(c)
    \/ SecretsStore
    \/ GlobalStateUpdate
    \/ ConfigEchoed
    \/ GenerateReadsConfig
    \/ GenerateCallsProvider

SpecConfig == InitConfig /\ [][NextConfig]_vars

(***************************************************************************)
(* C31: after any sequence of setConfig calls the record in globalState    *)
(* holds no API key; an entry of SecretStorage changes only when setConfig *)
(* stores a key, and then it is the entry of the provider of that config   *)
(* that gets that key; and generate passes to the provider the key stored  *)
(* under the provider id its getConfig read, never that of another entry.  *)
(***************************************************************************)
C31_KeyOnlyInSecrets ==
    [][/\ globalState' # <<>> => DOMAIN globalState'[1] =
                                     {"provider", "model", "temperature", "maxTokens"}
       /\ \A p \in Providers :
              secrets'[p] # secrets[p] =>
                  /\ setting.pc = "store" /\ setting.c.provider = p
                  /\ secrets'[p] = setting.c.apiKey
       /\ (passed' # passed /\ passed' # <<>>) =>
              /\ passed'[1].provider = config.provider
              /\ passed'[1].apiKey = secrets[passed'[1].provider]
              /\ passed'[1].apiKey # <<>>]_vars

\* keys saved for two providers, the configured one read by a generate call
\* that passed its key while the other entry holds a key too
C31_Witness ==
    /\ globalState # <<>> /\ globalState[1].provider = "gemini"
    /\ secrets["gemini"] # <<>> /\ secrets["anthropic"] # <<>>
    /\ passed = <<[provider |-> "gemini", apiKey |-> secrets["gemini"]]>>

(***************************************************************************)
(* C40: the AI config round-trips: the config posted back when             *)
(* setConfig(c) is done has provider, model, temperature, maxTokens and    *)
(* apiKey equal to those of c, a null apiKey after a key was saved for the *)
(* same provider included.                                                 *)
(***************************************************************************)
C40_ConfigRoundTrips ==
    [][(setting.pc = "get" /\ setting'.pc = "idle") => echoed' = <<setting.c>>]_vars


(***************************************************************************)
(* Prompt engine.  A prompt is the sequence of its lines; a line names its *)
(* kind, the box, page or component it is about, the depth of its indent   *)
(* and the one number it prints.  A box is named by its id (its label), an *)
(* optional argument is <<>> when it is not passed and <<value>> when it is *)
(***************************************************************************)
Line(kind, id, depth, n) == [kind |-> kind, id |-> id, depth |-> depth, n |-> n]

\* sharedComponents?.[box.sharedComponentId], when the box has the id
componentOf(box, shared) ==
    IF box.sharedComponentId # Null /\ shared # <<>>
       /\ box.sharedComponentId \in DOMAIN shared[1]
    THEN <<shared[1][box.sharedComponentId]>> ELSE <<>>

\* describeBoxTree whose children come in the order of childIds
RECURSIVE describeBoxTree_unsorted(_, _, _, _, _)
describeBoxTree_unsorted(box, allBoxes, depth, shared, fuel) ==
    LET sc == componentOf(box, shared)
        children == BoxesOf(allBoxes, box.childIds)
        RECURSIVE each(_)
        each(cs) ==
            IF cs = <<>> THEN <<>>
            ELSE <<Line("blank", box.id, depth, 0)>>
                 \o describeBoxTree_unsorted(Head(cs), allBoxes, depth + 1, shared, fuel - 1)
                 \o each(Tail(cs))
    IN  (IF box.parentId = Null
         THEN <<Line("block", box.id, depth, 3), Line("position", box.id, depth, 0)>>
         ELSE <<Line("block", box.id, depth, 4)>>)
        \o (IF sc # <<>> THEN <<Line("sharedRef", box.id, depth, sc[1].id)>> ELSE <<>>)
        \o (IF box.spec # Null THEN <<Line("spec", box.id, depth, box.spec)>> ELSE <<>>)
        \o (IF children = <<>> THEN <<>>
            ELSE IF fuel = 0 THEN <<Line("overflow", box.id, depth, 0)>>
            ELSE <<Line("children", box.id, depth, Len(children))>> \o each(children))

\* describeBoxTree: the header of the box (### and the position line for a
\* box with parentId null, #### else), the shared component line, the spec,
\* and the trees of the children sorted by order.  The recursion has no
\* visited set: fuel bounds it, and a tree deeper than the store has boxes
\* is a stack overflow
RECURSIVE describeBoxTree(_, _, _, _, _)
describeBoxTree(box, allBoxes, depth, shared, fuel) ==
    LET sc == componentOf(box, shared)
        children == SortByOrder(BoxesOf(allBoxes, box.childIds))
        RECURSIVE each(_)
        each(cs) ==
            IF cs = <<>> THEN <<>>
            ELSE <<Line("blank", box.id, depth, 0)>>
                 \o describeBoxTree(Head(cs), allBoxes, depth + 1, shared, fuel - 1)
                 \o each(Tail(cs))
    IN  (IF box.parentId = Null
         THEN <<Line("block", box.id, depth, 3), Line("position", box.id, depth, 0)>>
         ELSE <<Line("block", box.id, depth, 4)>>)
        \o (IF sc # <<>> THEN <<Line("sharedRef", box.id, depth, sc[1].id)>> ELSE <<>>)
        \o (IF box.spec # Null THEN <<Line("spec", box.id, depth, box.spec)>> ELSE <<>>)
        \o (IF children = <<>> THEN <<>>
            ELSE IF fuel = 0 THEN <<Line("overflow", box.id, depth, 0)>>
            ELSE <<Line("children", box.id, depth, Len(children))>> \o each(children))

\* collectReferencedSharedComponents: walk over the boxes in the order of
\* topBoxes and of childIds, with the set seen
collectReferencedSharedComponents(topBoxes, allBoxes, shared) ==
    LET RECURSIVE walk(_, _, _)
        walk(st, box, fuel) ==
            LET c == box.sharedComponentId
                st1 == IF c # Null /\ c \notin st.seen
                       THEN [seen |-> st.seen \cup {c},
                             result |-> IF c \in DOMAIN shared[1]
                                        THEN Append(st.result, shared[1][c])
                                        ELSE st.result]
                       ELSE st
                RECURSIVE over(_, _)
                over(s, ids) ==
                    IF ids = <<>> THEN s
                    ELSE over(IF Head(ids) \in DOMAIN allBoxes /\ fuel > 0
                              THEN walk(s, allBoxes[Head(ids)], fuel - 1) ELSE s,
                              Tail(ids))
            IN  over(st1, box.childIds)
        RECURSIVE all(_, _)
        all(s, bxs) ==
            IF bxs = <<>> THEN s
            ELSE all(walk(s, Head(bxs), Cardinality(DOMAIN allBoxes) + 1), Tail(bxs))
    IN  IF shared = <<>> THEN <<>>
        ELSE all([seen |-> {}, result |-> <<>>], topBoxes).result

\* sharedComponentsSection: the title, and per component its name, its code
\* when it has one and the number of its instances
sharedComponentsSection(components) ==
    LET RECURSIVE each(_)
        each(cs) ==
            IF cs = <<>> THEN <<>>
            ELSE <<Line("component", Head(cs).id, 0, 0)>>
                 \o (IF Head(cs).latestCode # Null
                     THEN <<Line("componentCode", Head(cs).id, 0, Head(cs).latestCode)>>
                     ELSE <<>>)
                 \o <<Line("componentUsed", Head(cs).id, 0, Len(Head(cs).instanceIds))>>
                 \o each(Tail(cs))
    IN  <<Line("sharedComponents", 0, 0, Len(components))>> \o each(components)

\* a buildPagePrompt that goes on to the layout sections for an empty page
buildPagePrompt_noEmptyCase(page, allBoxes, shared) ==
    <<Line("page", page.id, 0, 0), Line("intro", page.id, 0, 0),
      Line("layout", page.id, 0, 0), Line("instructions", page.id, 0, 0)>>

buildPagePrompt(page, allBoxes, shared) ==
    LET topLevelBoxes == SortByOrder(BoxesOf(allBoxes, page.boxIds))
        referencedShared == collectReferencedSharedComponents(topLevelBoxes, allBoxes, shared)
        RECURSIVE trees(_)
        trees(bxs) ==
            IF bxs = <<>> THEN <<>>
            ELSE describeBoxTree(Head(bxs), allBoxes, 0, shared, Cardinality(DOMAIN allBoxes) + 1)
                 \o trees(Tail(bxs))
        head == <<Line("page", page.id, 0, 0), Line("intro", page.id, 0, 0)>>
    IN  IF Len(topLevelBoxes) = 0 THEN Append(head, Line("empty", page.id, 0, 0))
        ELSE head
             \o (IF Len(referencedShared) > 0 THEN sharedComponentsSection(referencedShared)
                 ELSE <<>>)
             \o <<Line("layout", page.id, 0, Len(topLevelBoxes))>>
             \o trees(topLevelBoxes)
             \o <<Line("instructions", page.id, 0,
                       IF Len(referencedShared) > 0 THEN 1 ELSE 0)>>

buildBoxPrompt(box, allBoxes, shared) ==
    LET sc == componentOf(box, shared)
    IN  <<Line("component", box.id, 0, 0), Line("intro", box.id, 0, 0)>>
        \o (IF sc # <<>>
            THEN <<Line("instanceOf", box.id, 0, sc[1].id)>>
                 \o (IF sc[1].latestCode # Null
                     THEN <<Line("existing", box.id, 0, sc[1].latestCode)>> ELSE <<>>)
            ELSE <<>>)
        \o describeBoxTree(box, allBoxes, 0, shared, Cardinality(DOMAIN allBoxes) + 1)
        \o <<Line("instructions", box.id, 0, 0)>>


(***************************************************************************)
(* Specification of the page prompt: the handlers of the canvas and of the *)
(* shared-components list on a restored project of two shared components,  *)
(* the second with generated code, and a container with one nested         *)
(* instance, or with a nested instance of each component                   *)
(***************************************************************************)
InitPrompt ==
    /\ \/ /\ boxes = [addBox(addBox(EmptyMap, 1, Null), 2, 1) EXCEPT
                          ![2].sharedComponentId = 1, ![2].spec = ComponentSpec(1)]
          /\ nextId = 3
          /\ sharedComponents =
                 (1 :> [id |-> 1, latestCode |-> Null, instanceIds |-> <<2>>]) @@
                 (2 :> [id |-> 2, latestCode |-> CodeOf(1), instanceIds |-> <<>>])
       \/ /\ boxes = [addBox(addBox(addBox(EmptyMap, 1, Null), 2, 1), 3, 1) EXCEPT
                          ![2].sharedComponentId = 1, ![2].spec = ComponentSpec(1),
                          ![3].sharedComponentId = 2, ![3].spec = ComponentSpec(2)]
          /\ nextId = 4
          /\ sharedComponents =
                 (1 :> [id |-> 1, latestCode |-> Null, instanceIds |-> <<2>>]) @@
                 (2 :> [id |-> 2, latestCode |-> CodeOf(1), instanceIds |-> <<3>>])
    /\ pages = <<[id |-> defaultPageId, boxIds |-> <<1>>]>>
    /\ activePageId = defaultPageId
    /\ context = defaultContext
    /\ results = EmptyMap
    /\ generating = EmptyMap
    /\ streamBuffers = EmptyMap
    /\ requestBoxMap = EmptyMap
    /\ lastPrompt = NullPrompt
    /\ nextVersion = 1
    /\ requestCounter = 0
    /\ host = EmptyMap
    /\ inbox = <<>>
    /\ log = EmptyMap
    /\ completeCalls = EmptyMap
    /\ discarded = "none"
    /\ copyOf = EmptyMap
    /\ ExtensionIdle

NextPrompt ==
    \/ HandleAddBox(0, 0)
    \/ \E b \in BoxIds : HandleAddChild(b)
    \/ \E c \in DOMAIN sharedComponents : HandleInsertInstance(c)
    \/ \E b \in BoxIds : HandleDuplicateTop(b)
    \/ \E b \in BoxIds : HandleDuplicateNested(b)
    \/ \E b \in BoxIds : HandleDeleteTop(b)
    \/ \E b \in BoxIds : HandleDeleteNested(b)
    \/ \E a \in BoxIds, p \in BoxIds : HandleDropOnContainer(a, p)
    \/ \E a \in BoxIds, o \in BoxIds : HandleDropOnBox(a, o)
    \/ \E c \in DOMAIN sharedComponents : ComponentConfirmDelete(c)

SpecPrompt == InitPrompt /\ [][NextPrompt]_vars

\* Toolbar.handleGeneratePage: the user prompt of page p
PagePromptOf(p) == buildPagePrompt(pages[p], boxes, <<sharedComponents>>)

\* the ids of the lines of a kind, in the order of the prompt
IdsOf(prompt, kind) ==
    LET ls == SelectSeq(prompt, LAMBDA l : l.kind = kind)
    IN  [i \in 1..Len(ls) |-> ls[i].id]

\* the components named by the shared component lines of the node blocks, each
\* at its first occurrence
FirstReferences(prompt) ==
    LET refs == SelectSeq(prompt, LAMBDA l : l.kind = "sharedRef")
        firsts == {i \in 1..Len(refs) : \A j \in 1..(i - 1) : refs[j].n # refs[i].n}
    IN  [k \in 1..Cardinality(firsts) |->
            refs[CHOOSE i \in firsts : Cardinality({j \in firsts : j <= i}) = k].n]

NoRepeat(seq) == \A i, j \in 1..Len(seq) : seq[i] = seq[j] => i = j

(***************************************************************************)
(* C32: the shared-components section of a page prompt lists each          *)
(* component that a box of the page's trees references exactly once, and   *)
(* in the order of the first occurrence of the components in the node      *)
(* blocks of the prompt (roots and children sorted by order).              *)
(***************************************************************************)
C32_SharedListedOnceInBlockOrder ==
    \A p \in 1..Len(pages) :
        /\ NoRepeat(IdsOf(PagePromptOf(p), "component"))
        /\ IdsOf(PagePromptOf(p), "component") = FirstReferences(PagePromptOf(p))


\* the root boxes of page p that exist
RootsOf(p) == BoxesOf(boxes, pages[p].boxIds)

\* the block lines of a prompt
BlocksOf(prompt) == SelectSeq(prompt, LAMBDA l : l.kind = "block")

\* the blocks after block i up to the next block that is not deeper than it
SubtreeAfter(blocks, i) ==
    LET stops == {j \in (i + 1)..Len(blocks) : blocks[j].depth <= blocks[i].depth}
        end == IF stops = {} THEN Len(blocks) + 1
               ELSE CHOOSE j \in stops : \A k \in stops : j <= k
    IN  SubSeq(blocks, i + 1, end - 1)

\* the boxes of the blocks are in ascending order of their order field
Ascending(blocks) ==
    \A i \in 1..(Len(blocks) - 1) : boxes[blocks[i].id].order <= boxes[blocks[i + 1].id].order

(***************************************************************************)
(* C33: for a page with at least one existing root box, buildPagePrompt    *)
(* gives exactly one block for every box reached from the roots of the     *)
(* page; the blocks of the roots come in ascending order, each block is    *)
(* followed by the blocks of its subtree, its children in ascending order, *)
(* before the next sibling; a block has a position line if and only if     *)
(* the box has parentId = null; and the instruction section comes last.    *)
(***************************************************************************)
C33_BlocksInPreOrder ==
    \A p \in 1..Len(pages) :
        RootsOf(p) # <<>> =>
            LET prompt == PagePromptOf(p)
                blocks == BlocksOf(prompt)
                top == SelectSeq(blocks, LAMBDA l : l.depth = 0)
            IN  /\ NoRepeat(IdsOf(prompt, "block"))
                /\ SeqSet(IdsOf(prompt, "block")) =
                       UNION {Descendants(boxes, RootsOf(p)[r].id) : r \in 1..Len(RootsOf(p))}
                /\ {top[i].id : i \in 1..Len(top)} =
                       {RootsOf(p)[r].id : r \in 1..Len(RootsOf(p))}
                /\ Ascending(top)
                /\ \A i \in 1..Len(blocks) :
                       LET below == SubtreeAfter(blocks, i)
                           children == SelectSeq(below,
                                           LAMBDA l : l.depth = blocks[i].depth + 1)
                       IN  /\ {children[k].id : k \in 1..Len(children)} =
                                  SeqSet(boxes[blocks[i].id].childIds) \cap DOMAIN boxes
                           /\ Ascending(children)
                /\ \A i \in 1..Len(prompt) :
                       /\ prompt[i].kind = "block" =>
                              (prompt[i + 1].kind = "position"
                                   <=> boxes[prompt[i].id].parentId = Null)
                       /\ prompt[i].kind = "position" =>
                              prompt[i - 1] = Line("block", prompt[i].id, prompt[i].depth, 3)
                       /\ prompt[i].kind = "instructions" <=> i = Len(prompt)

\* a container whose children are listed in childIds against their order
C33_Witness ==
    /\ 1 \in DOMAIN boxes /\ boxes[1].childIds = <<2, 3>>
    /\ IdsOf(PagePromptOf(1), "block") = <<1, 3, 2>>
    /\ IdsOf(PagePromptOf(1), "position") = <<1>>

(***************************************************************************)
(* C34: for a page whose boxIds list is empty, buildPagePrompt returns the *)
(* page header, the intro sentence and the empty-page instruction only: no *)
(* shared-components section, no layout section, no node block and no      *)
(* instruction section.                                                    *)
(***************************************************************************)
C34_EmptyPagePrompt ==
    \A p \in 1..Len(pages) :
        pages[p].boxIds = <<>> =>
            PagePromptOf(p) = <<Line("page", pages[p].id, 0, 0),
                                Line("intro", pages[p].id, 0, 0),
                                Line("empty", pages[p].id, 0, 0)>>

\* the page emptied by the delete handler, shared components still in the
\* project
C34_Witness ==
    /\ pages[1].boxIds = <<>> /\ boxes = EmptyMap
    /\ DOMAIN sharedComponents = {1, 2}
    /\ Len(PagePromptOf(1)) = 3


(***************************************************************************)
(* Specification of the single-box generate action of the canvas, with the *)
(* user prompt the prompt engine assembles for it                          *)
(***************************************************************************)
\* assembleBoxPrompts(box, allBoxes, context, sharedComponents).userPrompt
assembleBoxPrompts(box, allBoxes, shared) == buildBoxPrompt(box, allBoxes, shared)

\* FreeformBox.handleGenerateBox: assembleBoxPrompts(box, allBoxes, context) is
\* called without the shared components
HandleGenerateBox(boxId) ==
    /\ boxId \in TopLevel
    /\ requestCounter < MaxRequests
    /\ LET userPrompt == assembleBoxPrompts(boxes[boxId], boxes, <<>>)
           requestId == requestCounter + 1
           s1 == setLastPrompt(Gen, [userPrompt |-> userPrompt, target |-> "box",
                                     targetId |-> boxId])
           s2 == startGeneration(s1, boxId)
           s3 == mapRequestToBox(s2, requestId, boxId)
       IN  /\ SetGen(s3)
           /\ requestCounter' = requestId
           /\ SendGenerate(requestId, userPrompt)
           /\ log' = Put(log, requestId,
                         [kind |-> "box", mapped |-> boxId, boxIds |-> <<boxId>>])
    /\ UNCHANGED <<extVars, uiVars, layoutVars, projectVars, nextVersion, inbox, completeCalls, discarded, copyOf>>

NextBoxPrompt ==
    \/ HandleAddBox(0, 0)
    \/ \E b \in BoxIds : HandleAddChild(b)
    \/ \E c \in DOMAIN sharedComponents : HandleInsertInstance(c)
    \/ \E b \in BoxIds : HandleDuplicateTop(b)
    \/ \E b \in BoxIds : HandleDeleteTop(b)
    \/ \E b \in BoxIds : HandleGenerateBox(b)

SpecBoxPrompt == InitPrompt /\ [][NextBoxPrompt]_vars

(***************************************************************************)
(* C36: when the single-box generate action is invoked on a box whose      *)
(* sharedComponentId names an existing shared component with latestCode,   *)
(* the user prompt of the outgoing generate message contains that          *)
(* latestCode as a reference implementation.                               *)
(***************************************************************************)
C36_PromptCarriesSharedCode ==
    [][\A b \in BoxIds :
          (/\ HandleGenerateBox(b)
           /\ boxes[b].sharedComponentId \in DOMAIN sharedComponents
           /\ sharedComponents[boxes[b].sharedComponentId].latestCode # Null) =>
              \E i \in 1..Len(host'[requestCounter'].prompt) :
                  /\ host'[requestCounter'].prompt[i].kind = "existing"
                  /\ host'[requestCounter'].prompt[i].n =
                         sharedComponents[boxes[b].sharedComponentId].latestCode]_vars


(***************************************************************************)
(* System prompt.  The prompt is the sequence of its sections; a section   *)
(* names itself and the values it prints                                   *)
(***************************************************************************)
Section(name, value) == [section |-> name, value |-> value]

\* outputRules: the rules after the six fixed ones
outputRules(ctx) ==
    (IF ctx.framework \in {"react", "nextjs"}
     THEN <<"namedExport", "hooks">>
          \o (IF ctx.language = "typescript" THEN <<"interfaces">> ELSE <<>>)
     ELSE <<>>)
    \o (IF ctx.framework \in {"vue", "nuxt"}
        THEN <<"scriptSetup">>
             \o (IF ctx.language = "typescript" THEN <<"defineProps">> ELSE <<>>)
        ELSE <<>>)
    \o (IF ctx.framework \in {"svelte", "sveltekit"}
        THEN <<"runes">> \o (IF ctx.language = "typescript" THEN <<"langTs">> ELSE <<>>)
        ELSE <<>>)

\* a buildSystemPrompt that pushes every section whatever the context holds
buildSystemPrompt_pushesAll(ctx) ==
    <<Section("role", <<>>), Section("framework", <<ctx.framework, ctx.language>>),
      Section("uiLibrary", <<ctx.uiLibrary>>), Section("designTokens", <<>>),
      Section("styleTone", <<ctx.styleTone>>), Section("constraints", ctx.constraints),
      Section("notes", ctx.additionalNotes),
      Section("naming", ctx.componentNamingConvention),
      Section("outputRules", outputRules(ctx))>>

\* buildSystemPrompt: sections.push in the order of the source, each under
\* its condition
buildSystemPrompt(ctx) ==
    <<Section("role", <<>>), Section("framework", <<ctx.framework, ctx.language>>)>>
    \o (IF ctx.uiLibrary # "none" THEN <<Section("uiLibrary", <<ctx.uiLibrary>>)>> ELSE <<>>)
    \o <<Section("designTokens", <<>>)>>
    \o (IF ctx.styleTone # "" THEN <<Section("styleTone", <<ctx.styleTone>>)>> ELSE <<>>)
    \o (IF Len(ctx.constraints) > 0 THEN <<Section("constraints", ctx.constraints)>> ELSE <<>>)
    \o (IF ctx.additionalNotes \notin {<<>>, <<"">>}
        THEN <<Section("notes", ctx.additionalNotes)>> ELSE <<>>)
    \o (IF ctx.componentNamingConvention # <<>>
        THEN <<Section("naming", ctx.componentNamingConvention)>> ELSE <<>>)
    \o <<Section("outputRules", outputRules(ctx))>>

\* the contexts the setup dialog can save
Contexts ==
    [framework : {"react", "vue", "vanilla"}, language : {"typescript", "javascript"},
     uiLibrary : {"none", "tailwind"}, styleTone : {"", "minimalist"},
     constraints : {<<>>, <<"c">>}, additionalNotes : {<<>>, <<"">>, <<"n">>},
     componentNamingConvention : {<<>>, <<"PascalCase">>}]

\* SetupDialog.handleSave: updateContext(draft), the draft being the stored
\* context with the edits of the dialog; an edit gives a field a value
HandleSave(draft) ==
    /\ context.additionalNotes # <<>> => draft.additionalNotes # <<>>
    /\ context.componentNamingConvention # <<>> => draft.componentNamingConvention # <<>>
    /\ context' = draft
    /\ UNCHANGED <<extVars, activePageId, layoutVars, projectVars, genVars, wireVars, histVars>>

NextContext == \E draft \in Contexts : HandleSave(draft)

SpecContext == InitDefault /\ [][NextContext]_vars

SectionOrder ==
    <<"role", "framework", "uiLibrary", "designTokens", "styleTone", "constraints",
      "notes", "naming", "outputRules">>

\* the names of the sections of the system prompt of the stored context
SectionNames ==
    [i \in 1..Len(buildSystemPrompt(context)) |-> buildSystemPrompt(context)[i].section]

NotesAbsent == context.additionalNotes \in {<<>>, <<"">>}

(***************************************************************************)
(* C35 as stated: buildSystemPrompt emits its sections in the fixed order  *)
(* role, framework+language, UI library, design tokens, style tone,        *)
(* constraints, notes, naming convention, output rules; the UI-library     *)
(* section is omitted exactly when uiLibrary is 'none', the constraints    *)
(* section exactly when the list is empty, the notes section exactly when  *)
(* notes are absent, and every other section is always present.            *)
(***************************************************************************)
C35_SectionsAsStated ==
    SectionNames =
        SelectSeq(SectionOrder,
                  LAMBDA s : /\ s = "uiLibrary" => context.uiLibrary # "none"
                             /\ s = "constraints" => context.constraints # <<>>
                             /\ s = "notes" => ~NotesAbsent)

(***************************************************************************)
(* C35 amended: the sections come in that fixed order; the UI-library      *)
(* section is omitted exactly when uiLibrary is 'none', the style-tone     *)
(* section exactly when styleTone is empty, the constraints section        *)
(* exactly when the list is empty, the notes section exactly when notes    *)
(* are absent or empty, the naming section exactly when no naming          *)
(* convention is set; role, framework+language, design tokens and output   *)
(* rules are always present.                                               *)
(***************************************************************************)
C35_SectionsInFixedOrder ==
    SectionNames =
        SelectSeq(SectionOrder,
                  LAMBDA s : /\ s = "uiLibrary" => context.uiLibrary # "none"
                             /\ s = "styleTone" => context.styleTone # ""
                             /\ s = "constraints" => context.constraints # <<>>
                             /\ s = "notes" => ~NotesAbsent
                             /\ s = "naming" => context.componentNamingConvention # <<>>)

\* a saved context with no UI library, an emptied style tone, emptied notes
\* and no naming convention: only the four fixed sections remain
C35_Witness ==
    /\ context.uiLibrary = "none" /\ context.styleTone = ""
    /\ context.additionalNotes = <<"">> /\ context.componentNamingConvention = <<>>
    /\ context.constraints = <<>>
    /\ SectionNames = <<"role", "framework", "designTokens", "outputRules">>


(***************************************************************************)
(* Specification of the host serving several generate messages at once:    *)
(* handleMessage starts a handleGenerate call for each message without     *)
(* awaiting it, and every call runs AIService.generate and the Gemini      *)
(* provider against a vendor that may answer anything at every await.      *)
(* host[r] is the call for request id r, posted the messages given to      *)
(* panel.postMessage, in order.                                            *)
(***************************************************************************)
Handling(pc, chunks) == [pc |-> pc, chunks |-> chunks]

\* a handleGenerate whose generateComplete is posted after the try block
settle_afterCatch(requestId, outcome) ==
    IF outcome = "resolved"
    THEN <<Message("generateComplete", requestId, <<>>, CodeOf(requestId))>>
    ELSE <<Message("generateError", requestId, <<>>, Null),
           Message("generateComplete", requestId, <<>>, CodeOf(requestId))>>

\* handleGenerate: what is posted when the promise of aiService.generate settles
settle(requestId, outcome) ==
    IF outcome = "resolved"
    THEN <<Message("generateComplete", requestId, <<>>, CodeOf(requestId))>>
    ELSE <<Message("generateError", requestId, <<>>, Null)>>

\* what the calls of handleGenerate leave alone
BesideHandlers ==
    <<layoutVars, projectVars, uiVars, genVars, requestCounter, inbox, histVars,
      cfgVars, config, vendor, proc, calls>>

\* handleMessage, case 'generate': handleGenerate(message.id, ...) is called
HandleGenerate(requestId) ==
    /\ requestId \notin DOMAIN host
    /\ host' = Put(host, requestId, Handling("generate", 0))
    /\ UNCHANGED <<posted, BesideHandlers>>

\* AIService.generate throws (no key, unknown provider), or streamText
\* rejects and the catch of GeminiProvider.generate throws its message
GenerateRejects(requestId) ==
    /\ requestId \in DOMAIN host
    /\ host[requestId].pc = "generate"
    /\ host' = [host EXCEPT ![requestId].pc = "done"]
    /\ posted' = posted \o settle(requestId, "rejected")
    /\ UNCHANGED BesideHandlers

\* GeminiProvider.generate: streamText returns
StreamTextReturns(requestId) ==
    /\ requestId \in DOMAIN host
    /\ host[requestId].pc = "generate"
    /\ host' = [host EXCEPT ![requestId].pc = "textStream"]
    /\ UNCHANGED <<posted, BesideHandlers>>

\* GeminiProvider.generate: one turn of the loop over result.textStream;
\* onChunk posts the part, a text that is not blank, under the id of its own
\* call
OnChunk(requestId) ==
    /\ requestId \in DOMAIN host
    /\ host[requestId].pc = "textStream"
    /\ host[requestId].chunks < MaxChunks
    /\ host' = [host EXCEPT ![requestId].chunks = @ + 1]
    /\ posted' = Append(posted, Message("generateChunk", requestId,
                                        <<<<requestId, host[requestId].chunks + 1>>>>, Null))
    /\ UNCHANGED BesideHandlers

\* GeminiProvider.generate: the stream ends with text; the result is returned
StreamEnds(requestId) ==
    /\ requestId \in DOMAIN host
    /\ host[requestId].pc = "textStream"
    /\ host[requestId].chunks > 0
    /\ host' = [host EXCEPT ![requestId].pc = "done"]
    /\ posted' = posted \o settle(requestId, "resolved")
    /\ UNCHANGED BesideHandlers

\* GeminiProvider.generate: the stream ends without text, with blank text
\* only (parts that give no onChunk call here), or throws; the call
\* goes on in _generateNonStreaming
StreamFallsBack(requestId) ==
    /\ requestId \in DOMAIN host
    /\ host[requestId].pc = "textStream"
    /\ host' = [host EXCEPT ![requestId].pc = "generateText"]
    /\ UNCHANGED <<posted, BesideHandlers>>

\* _generateNonStreaming: generateText answers with text, with none, or fails
GenerateTextSettles(requestId, outcome) ==
    /\ requestId \in DOMAIN host
    /\ host[requestId].pc = "generateText"
    /\ host' = [host EXCEPT ![requestId].pc = "done"]
    /\ posted' = posted \o settle(requestId, outcome)
    /\ UNCHANGED BesideHandlers

NextHost ==
    \E r \in 1..MaxRequests :
        \/ HandleGenerate(r)
        \/ GenerateRejects(r)
        \/ StreamTextReturns(r)
        \/ OnChunk(r)
        \/ StreamEnds(r)
        \/ StreamFallsBack(r)
        \/ \E outcome \in {"resolved", "rejected"} : GenerateTextSettles(r, outcome)

SpecHost == InitDefault /\ [][NextHost]_vars

\* the messages posted under the id, in the order of posting
PostedFor(requestId) == SelectSeq(posted, LAMBDA m : m.id = requestId)

Terminal(m) == m.type \in {"generateComplete", "generateError"}

(***************************************************************************)
(* C37: for every generate request with id r received by the host, the     *)
(* messages posted under r are zero or more generateChunk followed by at   *)
(* most one terminal message, generateComplete or generateError; the       *)
(* terminal message is there exactly when the provider call of r has       *)
(* settled, no generateChunk follows it, every chunk of the call of r      *)
(* carries id r, and nothing is posted under an id that was not received.  *)
(***************************************************************************)
C37_ChunksThenOneTerminal ==
    /\ \A i \in 1..Len(posted) : posted[i].id \in DOMAIN host
    /\ \A r \in DOMAIN host :
          LET mine == PostedFor(r)
              chunks == SelectSeq(mine, LAMBDA m : m.type = "generateChunk")
          IN  /\ \A i \in 1..Len(mine) :
                    IF i < Len(mine) THEN mine[i].type = "generateChunk"
                    ELSE mine[i].type = "generateChunk" \/ Terminal(mine[i])
              /\ Len(chunks) = host[r].chunks
              /\ host[r].pc = "done" <=> (mine # <<>> /\ Terminal(mine[Len(mine)]))

\* two calls served at once: the chunks of request 1 and request 2
\* interleave, request 2 has ended with generateComplete and request 1, whose
\* stream failed after a chunk, with the generateError of the fallback
C37_Witness ==
    /\ DOMAIN host = {1, 2}
    /\ host[1].pc = "done" /\ host[2].pc = "done"
    /\ Len(posted) = 4
    /\ posted[1].id = 1 /\ posted[1].type = "generateChunk"
    /\ posted[2].id = 2 /\ posted[2].type = "generateChunk"
    /\ posted[3].id = 2 /\ posted[3].type = "generateComplete"
    /\ posted[4].id = 1 /\ posted[4].type = "generateError"


(***************************************************************************)
(* C38: in every state reachable through add box, add child, insert shared *)
(* instance, duplicate, drag-move, delete box and delete page, every id in *)
(* a page's boxIds names an existing box with parentId = null, appears in  *)
(* exactly one page and at most once, and every existing box with          *)
(* parentId = null is listed in some page's boxIds.                        *)
(***************************************************************************)
C38_PageMembershipConsistent ==
    /\ \A p \in 1..Len(pages) :
          /\ NoRepeat(pages[p].boxIds)
          /\ \A b \in SeqSet(pages[p].boxIds) :
                /\ b \in DOMAIN boxes
                /\ boxes[b].parentId = Null
                /\ \A q \in 1..Len(pages) : b \in SeqSet(pages[q].boxIds) => q = p
    /\ \A b \in DOMAIN boxes :
          boxes[b].parentId = Null =>
              \E p \in 1..Len(pages) : b \in SeqSet(pages[p].boxIds)


\* the first page, with a root box and its child, was deleted after a box
\* was added to the second page: the one page left lists the one box left
C38_Witness ==
    /\ Len(pages) = 1
    /\ pages[1].id = 2
    /\ pages[1].boxIds = <<3>>
    /\ DOMAIN boxes = {3}
    /\ boxes[3].parentId = Null


(***************************************************************************)
(* Specification of generation on a project of two pages: the generate     *)
(* action of a box, the host and the listeners of SpecGen, with the page   *)
(* menu selecting and deleting pages while requests are under way.         *)
(***************************************************************************)
NextPageGen ==
    \/ \E b \in BoxIds : GenerateBox(b)
    \/ \E r \in 1..MaxRequests : HostChunk(r)
    \/ \E r \in 1..MaxRequests : HostComplete(r)
    \/ \E r \in 1..MaxRequests : HostError(r)
    \/ OnGenerateChunk
    \/ OnGenerateComplete
    \/ OnGenerateError
    \/ \E p \in PageIds : HandleSelectPage(p)
    \/ \E p \in PageIds : PageConfirmDelete(p)

SpecPageGen == InitProject /\ [][NextPageGen]_vars

\* the boxes that were removed; here a box is removed only with its page
RemovedBoxes == (1..(nextId - 1)) \ DOMAIN boxes

(***************************************************************************)
(* C39: after a page is deleted, the generation store holds no state for   *)
(* any box of that page: no results entry, no true generating flag, no     *)
(* non-empty stream buffer and no requestBoxMap entry pointing to it, so a *)
(* late generateComplete cannot create a result for such a box.            *)
(***************************************************************************)
C39_NoGenerationStateForDeletedPage ==
    \A b \in RemovedBoxes :
        /\ b \notin DOMAIN results
        /\ ~(b \in DOMAIN generating /\ generating[b])
        /\ ~(b \in DOMAIN streamBuffers /\ streamBuffers[b] # <<>>)
        /\ \A r \in DOMAIN requestBoxMap : requestBoxMap[r] # b

====
